---- MODULE Spec2Model ----
(***************************************************************************)
(* Model of the PoB consensus engine of go-iost (consensus/pob/pob.go):    *)
(* block ingestion (handleRecvBlock, RecoverBlock, addExistingBlock,       *)
(* doVerifyBlock) over the BlockCache fork tree, and the verify and        *)
(* schedule loops.                                                         *)
(*                                                                         *)
(* Time is counted in sub-slots of subSlotTime (500 ms).  A block is a     *)
(* record [hash, number, parentHash, witness, time, sign, root]: sign says *)
(* whether verifyBasics accepts the block, root whether replaying its      *)
(* transactions reproduces its merkle root and receipts (verifyBlock).     *)
(***************************************************************************)
EXTENDS Integers, Sequences, FiniteSets, TLC

(***************************************************************************)
(* Program constants.                                                      *)
(***************************************************************************)
blockNumPerWitness == 6

maxBlockNumber == 10000

\* sub-slots per second: 1 s / subSlotTime (500 ms)
TicksPerSec == 2

\* length of a slot in seconds (common.SlotLength: "one slot of 3 s")
SlotLength == 3

\* the ordered list of active witnesses (head.Active())
WitnessList == <<"W1", "W2", "W3">>

\* the list when this node is the only active witness
SoloList == <<"W1">>

(***************************************************************************)
(* Bounds of the model.                                                    *)
(***************************************************************************)
\* number of consecutive blocks witness W1 signs in slot 1 on the main chain
ChainLen == 7

\* number of blocks of that chain the WAL holds when the engine is constructed
WalLen == 3

\* number of sub-slots the clock runs for when the schedule loop runs alone
RoundTicks == 7

\* number of sub-slots the clock runs for after the engine is started
MaxTicks == 4

\* number of sub-slots the clock runs for when the engine is stopped
StopTicks == 1

(***************************************************************************)
(* The blocks the network may deliver.                                     *)
(***************************************************************************)
NoHash == 0 - 1

Blk(h, n, p, w, t, s, r) ==
    [hash |-> h, number |-> n, parentHash |-> p, witness |-> w, time |-> t,
     sign |-> s, root |-> r]

Min(a, b) == IF a < b THEN a ELSE b

\* the root the cache starts from (the last irreversible block)
Genesis == Blk(0, 0, NoHash, "W0", 0, TRUE, TRUE)

\* W1's chain in slot 1: block i has hash i and is the child of block i - 1
ChainBlock(i) == Blk(i, i, i - 1, "W1", 6 + Min(i - 1, 5), TRUE, TRUE)

ChainBlocks == { ChainBlock(i) : i \in (WalLen + 1)..ChainLen }

\* a fork at the last block of the WAL: 11 <- 12 <- 13 <- 14 signed by W2, W3,
\* W1, W2 in the slots 2..5, and a second child 15 of block 11
ForkBlocks ==
    { Blk(11, WalLen + 1, WalLen, "W2", 12, TRUE, TRUE),
      Blk(12, WalLen + 2, 11, "W3", 18, TRUE, TRUE),
      Blk(13, WalLen + 3, 12, "W1", 24, TRUE, TRUE),
      Blk(14, WalLen + 4, 13, "W2", 30, TRUE, TRUE),
      Blk(15, WalLen + 2, 11, "W3", 19, TRUE, TRUE) }

\* a child of block 11 whose state verification fails, its child, and
\* block 15 arriving with a signature that verifyBasics rejects
BadBlocks ==
    { Blk(21, WalLen + 2, 11, "W3", 20, TRUE, FALSE),
      Blk(22, WalLen + 3, 21, "W1", 25, TRUE, TRUE),
      Blk(15, WalLen + 2, 11, "W3", 19, FALSE, TRUE) }

Universe == ChainBlocks \cup ForkBlocks \cup BadBlocks

\* commits the state DB may hold beyond the WAL from the run before
PreCommitted == {WalLen + 1, 11}

(***************************************************************************)
(* State.                                                                  *)
(***************************************************************************)
VARIABLES
    nodes,       \* blockCache: hash -> [blk, type, serialNum]
    linkedRoot,  \* blockCache.LinkedRoot(): hash of the LIB node
    committed,   \* verifyDB: the hashes it holds a commit for
    txLinked,    \* txPool: the nodes AddLinkedNode was called with
    txLocked,    \* txPool.Lock() is held
    last,        \* the call that has just returned, with the state before it
    rejected,    \* history: the hashes addExistingBlock returned errOutOfLimit for
    active,      \* head.Active(): the ordered list of active witnesses
    horizon,     \* the time at which the clock of the model stops
    incoming,    \* the messages sync.IncomingBlock() may deliver
    now,         \* time.Now() in units of subSlotTime
    exitSignal,  \* p.exitSignal is closed
    quitGenerateMode, \* p.quitGenerateMode: the number of the channel it holds
    closed,      \* the channels that have been closed
    vpc,         \* verifyLoop: where the goroutine is
    vmsg,        \* verifyLoop: the message taken from sync.IncomingBlock()
    vchan,       \* verifyLoop: the channel its receive waits on
    spc,         \* scheduleLoop: where the goroutine is
    nextSchedule, \* scheduleLoop: the duration of its next sleep
    wakeAt,      \* scheduleLoop: when the timer of time.After fires
    slotFlag,    \* scheduleLoop: the slot it produced in last
    num,         \* scheduleLoop: the index of the block of the round
    genHead,     \* scheduleLoop: head returned by txPool.PendingTx()
    tickedAt,    \* scheduleLoop: the time of the last tick it consumed
    rounds,      \* history: the rounds entered, [slot, time, head, gens]
    produced,    \* history: the blocks gen broadcast, [blk, round, num, err]
    sync,        \* p.sync: "nil" until Start, then the synchronizer
    stopPc,      \* PoB.Stop: where the call is
    neighborHeight, \* heightSync.NeighborHeight()
    quitCh,      \* Sync.quitCh is closed
    running,     \* Sync.done: the controllers that have not called Done
    handlerQuit, \* the request handler has been told to stop
    closePc,     \* Sync.Close: where the call is
    hashes,      \* blockhashSync: the hashes neighbours advertised
    requests,    \* history: what the ticks of the controllers sent
    chTx,        \* TxPoolImpl.chTx: the messages buffered in the channel
    chLinkedNode, \* TxPoolImpl.chLinkedNode: the nodes buffered in the channel
    pendingTx,   \* TxPoolImpl.pendingTx: the transactions it holds
    blockList,   \* TxPoolImpl.blockList: the hashes of the blocks it holds
    forkChain,   \* TxPoolImpl.forkChain: [NewHead, OldHead, ForkBlockHash]
    ppc,         \* TxPoolImpl.loop: where the goroutine is, [at, node]
    sending,     \* the message each caller of AddTx is sending, or none
    ret,         \* what the last call of PendingTxs, ExistTxs, Marshal or Unmarshal returned
    published    \* the messages of type ReqPublishTx the network brings

cacheVars == <<nodes, linkedRoot, committed, txLinked, txLocked, rejected, active, horizon,
               incoming>>

verifyVars == <<vpc, vmsg, vchan>>

histVars == <<rounds, produced>>

scheduleVars == <<spc, nextSchedule, wakeAt, slotFlag, num, genHead, tickedAt, histVars>>

loopVars == <<now, exitSignal, quitGenerateMode, closed, verifyVars, scheduleVars>>

syncRest == <<sync, neighborHeight, quitCh, running, handlerQuit, closePc, hashes, requests>>

syncVars == <<stopPc, syncRest>>

poolVars == <<chTx, chLinkedNode, pendingTx, blockList, forkChain, ppc, sending, ret,
              published>>

serviceVars == <<syncVars, poolVars>>

vars == <<cacheVars, last, loopVars, serviceVars>>

(***************************************************************************)
(* Errors and the record of calls made during one handler invocation.      *)
(***************************************************************************)
errNil == "nil"
errSingle == "errSingle"
errDuplicate == "errDuplicate"
errOutOfLimit == "errOutOfLimit"
errVerifyBasics == "errVerifyBasics"
errVerifyBlock == "errVerifyBlock"

Ev(op, h) == [op |-> op, hash |-> h]

Call(st, op, h) == [st EXCEPT !.calls = Append(@, Ev(op, h))]

Range(s) == { s[i] : i \in 1..Len(s) }

(***************************************************************************)
(* Slots.                                                                  *)
(***************************************************************************)
slotOfSec(sec) == sec \div SlotLength

\* blk.Head.Time / 1e9: the second a time in sub-slots falls in
SecOfTime(t) == t \div TicksPerSec

(***************************************************************************)
(* BlockCache: an arena of nodes keyed by head hash; parent and children   *)
(* are resolved through the arena by hash.                                 *)
(***************************************************************************)
NewNode(blk) == [blk |-> blk, type |-> "Single", serialNum |-> 0]

Find(ns, h) == h \in DOMAIN ns

Children(ns, h) == { c \in DOMAIN ns : ns[c].blk.parentHash = h }

RECURSIVE Closure(_, _)
Closure(ns, S) ==
    LET next == S \cup { c \in DOMAIN ns : ns[c].blk.parentHash \in S }
    IN  IF next = S THEN S ELSE Closure(ns, next)

\* a node and all its descendants in the cache
Subtree(ns, h) == Closure(ns, {h})

Restrict(ns, keep) == [ h \in (DOMAIN ns) \cap keep |-> ns[h] ]

LinkedSet(ns) == { h \in DOMAIN ns : ns[h].type = "Linked" }

\* a is at least as good a head as b: number, then earlier time, then hash
Better(ns, a, b) ==
    \/ ns[a].blk.number > ns[b].blk.number
    \/ /\ ns[a].blk.number = ns[b].blk.number
       /\ ns[a].blk.time < ns[b].blk.time
    \/ /\ ns[a].blk.number = ns[b].blk.number
       /\ ns[a].blk.time = ns[b].blk.time
       /\ a <= b

CacheHead(ns) ==
    CHOOSE h \in LinkedSet(ns) : \A o \in LinkedSet(ns) : Better(ns, h, o)

\* the branch from h up to the root: <<h, parent of h, ..., root>>
RECURSIVE Branch(_, _, _)
Branch(ns, root, h) ==
    IF h = root \/ ~Find(ns, ns[h].blk.parentHash)
    THEN <<h>>
    ELSE <<h>> \o Branch(ns, root, ns[h].blk.parentHash)

Add(st, blk) ==
    Call([st EXCEPT !.nodes = IF Find(@, blk.hash) THEN @
                                ELSE @ @@ (blk.hash :> NewNode(blk))],
         "Add", blk.hash)

Link(st, h, replay) ==
    Call([st EXCEPT !.nodes[h].type = "Linked"], "Link", h)

Del(st, h) ==
    Call([st EXCEPT !.nodes = Restrict(@, (DOMAIN @) \ Subtree(@, h))], "Del", h)

\* the witnesses of the active list that signed a strict descendant of
\* branch[i] on the branch
Confirmers(ns, branch, i) ==
    { ns[branch[j]].blk.witness : j \in 1..(i - 1) } \cap Range(active)

Confirmed(ns, branch, i) ==
    3 * Cardinality(Confirmers(ns, branch, i)) >= 2 * Len(active)

UpdateLib(st, h) ==
    LET ns == st.nodes
        branch == Branch(ns, st.linkedRoot, CacheHead(ns))
        ok == { i \in 1..Len(branch) : Confirmed(ns, branch, i) }
        lib == IF ok = {} THEN st.linkedRoot
               ELSE branch[CHOOSE i \in ok : \A j \in ok : i <= j]
        keep == Subtree(ns, lib) \cup ((DOMAIN ns) \ Subtree(ns, st.linkedRoot))
    IN  Call([st EXCEPT !.linkedRoot = lib, !.nodes = Restrict(@, keep)],
             "UpdateLib", h)

(***************************************************************************)
(* TxPool and versioned state DB, as the engine uses them.                 *)
(***************************************************************************)
AddLinkedNode(st, h) ==
    Call([st EXCEPT !.txLinked = @ \cup {h}], "AddLinkedNode", h)

TxLock(st) == Call([st EXCEPT !.txLocked = TRUE], "Lock", NoHash)

TxRelease(st) == Call([st EXCEPT !.txLocked = FALSE], "Release", NoHash)

Checkout(st, h) == h \in st.committed

Commit(st, h) == Call([st EXCEPT !.committed = @ \cup {h}], "Commit", h)

verifyBasics(blk) == IF blk.sign THEN errNil ELSE errVerifyBasics

verifyBlock(blk, parentBlk, replay) == IF blk.root THEN errNil ELSE errVerifyBlock

(***************************************************************************)
(* PoB.addExistingBlock.  The operators work on a record st of the fields  *)
(* a handler touches, [nodes, linkedRoot, committed, txLinked, txLocked,   *)
(* calls, err], and yield the set of records the call may end in: the      *)
(* order in which the children of a node are visited is not fixed.         *)
(***************************************************************************)
\* SerialNumOf that never counts
SerialNumOfZero(parentNode, blk) == 0

\* lines 342-347
SerialNumOf(parentNode, blk) ==
    IF \/ parentNode.blk.witness # blk.witness
       \/ slotOfSec(SecOfTime(parentNode.blk.time)) # slotOfSec(SecOfTime(blk.time))
    THEN 0
    ELSE parentNode.serialNum + 1

\* OutOfLimit off by one
OutOfLimitAbove(serialNum) == serialNum > blockNumPerWitness

\* line 349
OutOfLimit(serialNum) == serialNum >= blockNumPerWitness

\* VerifyState returning on a failure before the tx pool is released
VerifyStateKeepLock(st, h, parentNode, replay) ==
    IF Checkout(st, h)
    THEN [Call(st, "Checkout", h) EXCEPT !.err = errNil]
    ELSE LET blk == st.nodes[h].blk
             err == verifyBlock(blk, parentNode.blk, replay)
             s1 == Call(TxLock(st), IF err = errNil THEN "verifyBlockOk"
                                    ELSE "verifyBlockFail", h)
         IN  IF err # errNil
             THEN [Del(s1, h) EXCEPT !.err = err]
             ELSE [Commit(TxRelease(s1), h) EXCEPT !.err = errNil]

\* lines 352-364: state verification unless the state DB holds the commit
VerifyState(st, h, parentNode, replay) ==
    IF Checkout(st, h)
    THEN [Call(st, "Checkout", h) EXCEPT !.err = errNil]
    ELSE LET blk == st.nodes[h].blk
             err == verifyBlock(blk, parentNode.blk, replay)
             s1 == TxRelease(Call(TxLock(st),
                                  IF err = errNil THEN "verifyBlockOk"
                                  ELSE "verifyBlockFail", h))
         IN  IF err # errNil
             THEN [Del(s1, h) EXCEPT !.err = err]
             ELSE [Commit(s1, h) EXCEPT !.err = errNil]

\* LinkSteps with the tx pool told before the LIB is updated
LinkStepsPoolFirst(st, h, replay) ==
    UpdateLib(AddLinkedNode(Link(st, h, replay), h), h)

\* lines 365-369
LinkSteps(st, h, replay) ==
    AddLinkedNode(UpdateLib(Link(st, h, replay), h), h)

RECURSIVE addExistingBlock(_, _, _, _)
RECURSIVE LinkChildren(_, _, _, _, _)
\* addExistingBlock taking a block over the limit out of the cache
addExistingBlockDropsOverLimit(st, h, parentNode, replay) ==
    LET blk == st.nodes[h].blk
        s1 == [st EXCEPT !.nodes[h].serialNum = SerialNumOf(parentNode, blk)]
    IN  IF OutOfLimit(s1.nodes[h].serialNum)
        THEN { [Del(Call(s1, "errOutOfLimit", h), h) EXCEPT !.err = errOutOfLimit] }
        ELSE LET s2 == VerifyState(s1, h, parentNode, replay)
             IN  IF s2.err # errNil
                 THEN { s2 }
                 ELSE LET s3 == LinkSteps(s2, h, replay)
                      IN  { [r EXCEPT !.err = errNil] :
                              r \in LinkChildren(s3, h, s3.nodes[h], replay, {}) }

addExistingBlock(st, h, parentNode, replay) ==
    LET blk == st.nodes[h].blk
        s1 == [st EXCEPT !.nodes[h].serialNum = SerialNumOf(parentNode, blk)]
    IN  IF OutOfLimit(s1.nodes[h].serialNum)
        THEN { [Call(s1, "errOutOfLimit", h) EXCEPT !.err = errOutOfLimit] }
        ELSE LET s2 == VerifyState(s1, h, parentNode, replay)
             IN  IF s2.err # errNil
                 THEN { s2 }
                 ELSE LET s3 == LinkSteps(s2, h, replay)
                      IN  { [r EXCEPT !.err = errNil] :
                              r \in LinkChildren(s3, h, s3.nodes[h], replay, {}) }

\* LinkChildren that leaves the children of the node alone
LinkChildrenNone(st, h, node, replay, visited) == { st }

\* lines 384-386: for child := range node.Children
LinkChildren(st, h, node, replay, visited) ==
    LET todo == Children(st.nodes, h) \ visited
    IN  IF todo = {}
        THEN { st }
        ELSE UNION { UNION { LinkChildren(r, h, node, replay, visited \cup {c}) :
                               r \in addExistingBlock(st, c, node, replay) } :
                     c \in todo }

(***************************************************************************)
(* PoB.handleRecvBlock and PoB.RecoverBlock.                               *)
(***************************************************************************)
\* ParentLinked without the test of the parent's type
ParentPresent(st, blk) == Find(st.nodes, blk.parentHash)

\* IsDuplicate looking the parent's hash up instead of the block's
IsDuplicateOfParent(st, blk) == Find(st.nodes, blk.parentHash)

\* lines 321-324 and 301-304
IsDuplicate(st, blk) == Find(st.nodes, blk.hash)

\* lines 331-333 and 309-311
ParentLinked(st, blk) ==
    /\ Find(st.nodes, blk.parentHash)
    /\ st.nodes[blk.parentHash].type = "Linked"

handleRecvBlock(st, blk) ==
    IF IsDuplicate(st, blk)
    THEN { [st EXCEPT !.err = errDuplicate] }
    ELSE IF verifyBasics(blk) # errNil
    THEN { [st EXCEPT !.err = verifyBasics(blk)] }
    ELSE LET s1 == Call(st, "verifyBasics", blk.hash)
             linked == ParentLinked(s1, blk)
             s2 == Add(s1, blk)
         IN  IF linked
             THEN addExistingBlock(s2, blk.hash, s2.nodes[blk.parentHash], FALSE)
             ELSE { [s2 EXCEPT !.err = errSingle] }

\* RecoverBlock taking the blocks of the WAL as verified: no verifyBasics
RecoverBlockUnverified(st, blk) ==
    IF IsDuplicate(st, blk)
    THEN { [st EXCEPT !.err = errDuplicate] }
    ELSE LET linked == ParentLinked(st, blk)
             s2 == Add(st, blk)
         IN  IF linked
             THEN addExistingBlock(s2, blk.hash, s2.nodes[blk.parentHash], TRUE)
             ELSE { [s2 EXCEPT !.err = errSingle] }

\* lines 299-315
RecoverBlock(st, blk) ==
    IF IsDuplicate(st, blk)
    THEN { [st EXCEPT !.err = errDuplicate] }
    ELSE IF verifyBasics(blk) # errNil
    THEN { [st EXCEPT !.err = verifyBasics(blk)] }
    ELSE LET s1 == Call(st, "verifyBasics", blk.hash)
             linked == ParentLinked(s1, blk)
             s2 == Add(s1, blk)
         IN  IF linked
             THEN addExistingBlock(s2, blk.hash, s2.nodes[blk.parentHash], TRUE)
             ELSE { [s2 EXCEPT !.err = errSingle] }

(***************************************************************************)
(* PoB.doVerifyBlock and PoB.broadcastBlockHash.                           *)
(***************************************************************************)
NewBlock == "NewBlock"
SyncBlockResponse == "SyncBlockResponse"
P2PTypes == {NewBlock, SyncBlockResponse}

broadcastBlockHash(st, blk) ==
    [st EXCEPT !.calls = Append(@, [op |-> "BroadcastNewBlockHash",
                                    hash |-> blk.hash, number |-> blk.number])]

\* ShouldBroadcast leaving out only the duplicate
ShouldBroadcastUnlessDuplicate(err) == err # errDuplicate

\* line 171
ShouldBroadcast(err) == err = errSingle \/ err = errNil

doVerifyBlock(st, blkMsg) ==
    LET blk == blkMsg.blk
    IN  IF blkMsg.p2pType = NewBlock
        THEN { IF ShouldBroadcast(r.err)
               THEN broadcastBlockHash(Call(r, "return", blk.hash), blk)
               ELSE Call(r, "return", blk.hash) :
               r \in handleRecvBlock(st, blk) }
        ELSE { Call(r, "return", blk.hash) : r \in handleRecvBlock(st, blk) }

(***************************************************************************)
(* The engine as a state machine: blocks arrive in any order.  A call      *)
(* leaves its result and the calls it made in last, with the state it      *)
(* started from, until the caller goes on.                                 *)
(***************************************************************************)
Fields(n, l, c, t, k) ==
    [nodes |-> n, linkedRoot |-> l, committed |-> c, txLinked |-> t,
     txLocked |-> k, calls |-> <<>>, err |-> errNil]

Cur == Fields(nodes, linkedRoot, committed, txLinked, txLocked)

NoCall == [op |-> "none"]

\* the fields of the engine after a handler returned r
InstallCache(r) ==
    /\ nodes' = r.nodes
    /\ linkedRoot' = r.linkedRoot
    /\ committed' = r.committed
    /\ txLinked' = r.txLinked
    /\ txLocked' = r.txLocked
    /\ rejected' = rejected \cup
                      { r.calls[i].hash :
                          i \in { j \in 1..Len(r.calls) : r.calls[j].op = "errOutOfLimit" } }
    /\ UNCHANGED <<active, horizon, incoming>>

Install(r, op, blk, t) ==
    /\ InstallCache(r)
    /\ last' = [op |-> op, blk |-> blk, p2pType |-> t, err |-> r.err,
                calls |-> r.calls, pre |-> Cur]
    /\ UNCHANGED <<loopVars, serviceVars>>

\* the time at which the engine is started: the last sub-slot of slot 2
StartTime == 3 * blockNumPerWitness - 1

\* spec 4.4: the time until the next slot boundary
timeUntilNextSchedule(t) == blockNumPerWitness - (t % blockNumPerWitness)

NoMsg == [p2pType |-> "none"]

NoHead == [hash |-> NoHash, number |-> 0]

\* New: the channel made in New is closed; both loops are at pc
Loops(pc) ==
    /\ now = StartTime
    /\ exitSignal = FALSE
    /\ quitGenerateMode = 0
    /\ closed = {0}
    /\ vpc = pc
    /\ vmsg = NoMsg
    /\ vchan = 0
    /\ spc = pc
    /\ nextSchedule = timeUntilNextSchedule(StartTime)
    /\ wakeAt = StartTime + timeUntilNextSchedule(StartTime)
    /\ slotFlag = 0
    /\ num = 0
    /\ genHead = NoHead
    /\ tickedAt = 0
    /\ rounds = <<>>
    /\ produced = <<>>

\* New and Start: both loops are waiting
Started == Loops("select")

\* New: the cache holds the root; recoverBlockcache replays the WAL
EmptyCache(c) ==
    Fields((Genesis.hash :> [blk |-> Genesis, type |-> "Linked", serialNum |-> 0]),
           Genesis.hash, c, {}, FALSE)

RECURSIVE recoverBlockcache(_, _)
recoverBlockcache(st, i) ==
    IF i > WalLen
    THEN st
    ELSE recoverBlockcache(CHOOSE r \in RecoverBlock(st, ChainBlock(i)) : TRUE, i + 1)

\* a block far ahead of every head the cache can have
FarBlock == Blk(31, 2 * maxBlockNumber, 30, "W2", StartTime, TRUE, TRUE)

\* the messages the synchronizer hands to the verify loop
LoopBlocks ==
    { ChainBlock(WalLen + 1), Blk(11, WalLen + 1, WalLen, "W2", 12, TRUE, TRUE), FarBlock }

LoopMessages == { [blk |-> b, p2pType |-> t] : b \in LoopBlocks, t \in P2PTypes }

\* the fork 11 <- 12 <- 13 of W2, W3, W1 on the last block of the WAL
RaceMessages ==
    { [blk |-> b, p2pType |-> NewBlock] : b \in { f \in ForkBlocks : f.hash \in 11..13 } }

\* the goroutines of the synchronizer: sync.go lines 56-59
Controllers == {"heightSync", "blockhashSync", "blockSync", "metrics"}

NoTick == [tick |-> "none"]

\* the goroutines that call AddTx
Callers == {"c1"}

\* the fields of a synchronizer: none of its goroutines runs before
\* synchro.New (lines 38-62), running are the goroutines New started
SyncFields(r) ==
    /\ neighborHeight = 0
    /\ quitCh = FALSE
    /\ running = r
    /\ handlerQuit = FALSE
    /\ closePc = "none"
    /\ hashes = {}
    /\ requests = NoTick

NoTx == [id |-> 0]

\* tx_pool.go line 25
expiration == 60

\* line 26
filterTime == expiration + expiration \div 2

\* the time, in seconds, at which the pool is started
PoolTime == SecOfTime(StartTime)

\* a transaction: its hash, whether VerifySelf returns nil, Time and
\* Expiration in seconds, GasPrice
Tx(id, ok, t, e, g) ==
    [id |-> id, VerifySelf |-> ok, Time |-> t, Expiration |-> e, GasPrice |-> g]

\* a valid transaction, one whose VerifySelf fails, one that expires in a
\* second, one that is too old and one that was confirmed long ago
AllTxs ==
    { Tx(1, TRUE, PoolTime, PoolTime + expiration, 1),
      Tx(2, FALSE, PoolTime, PoolTime + expiration, 2),
      Tx(3, TRUE, PoolTime, PoolTime + 1, 1),
      Tx(4, TRUE, PoolTime - expiration - 1, PoolTime + expiration, 2),
      Tx(5, TRUE, PoolTime - 2 * filterTime, PoolTime + expiration, 1) }

TxOf(id) == CHOOSE t \in AllTxs : t.id = id

\* the transactions that come from the network
PoolTxs == { t \in AllTxs : t.id \in 1..4 }

\* the messages of type ReqPublishTx: a transaction, or a body that
\* tx.Decode rejects
PoolMessages ==
    { [decodes |-> TRUE, tx |-> t] : t \in PoolTxs } \cup {[decodes |-> FALSE, tx |-> NoTx]}

\* global.BlockChain(), the chain store, by block number from 0: the
\* genesis block, a block confirmed long ago and the root of the BlockCache
BlockChain ==
    << [hash |-> 91, parentHash |-> NoHash, txs |-> <<>>, time |-> PoolTime - 3 * filterTime],
       [hash |-> 90, parentHash |-> 91, txs |-> <<TxOf(5)>>, time |-> PoolTime - 2 * filterTime],
       [hash |-> 0, parentHash |-> 90, txs |-> <<>>, time |-> PoolTime] >>

\* the root of the BlockCache (chain.LinkedTree)
LinkedTree == BlockChain[Len(BlockChain)]

\* the blocks of the BlockCache: 1 <- 2 on the root, block 2 holding the
\* valid and the old transaction, and a second child 12 of block 1 that
\* holds the transaction whose VerifySelf fails (the pool does not verify
\* the transactions of a block)
PoolBlocks ==
    { [hash |-> 1, parentHash |-> 0, txs |-> <<>>, time |-> PoolTime],
      [hash |-> 2, parentHash |-> 1, txs |-> <<TxOf(1), TxOf(4)>>, time |-> PoolTime],
      [hash |-> 12, parentHash |-> 1, txs |-> <<TxOf(2)>>, time |-> PoolTime] }

\* a child of block 2 made more than filterTime after it, no block being
\* confirmed in between
LateBlocks ==
    { [hash |-> 3, parentHash |-> 2, txs |-> <<>>, time |-> PoolTime + filterTime + 1] }

\* tx_pool.go lines 270-286: the blocks of the chain store, but block 0,
\* that are not older than filterTime at time t
initBlockTx(t) ==
    { BlockChain[i + 1].hash : i \in { j \in 1..(Len(BlockChain) - 1) :
                                         t - BlockChain[j + 1].time <= filterTime } }

NoFork == [NewHead |-> NoHash, OldHead |-> NoHash, ForkBlockHash |-> NoHash]

\* NewTxPoolImpl (lines 106-131) and the start of loop (line 146)
PoolNew ==
    /\ pendingTx = {}
    /\ blockList = initBlockTx(PoolTime)
    /\ forkChain = NoFork

NoRet == [op |-> "none"]

\* the pool with nothing in its channels, no call of it made, its loop
\* waiting in the select
PoolIdle ==
    /\ chTx = <<>>
    /\ chLinkedNode = <<>>
    /\ ppc = [at |-> "select"]
    /\ sending = [c \in Callers |-> NoTx]
    /\ ret = NoRet

\* New: the engine constructed with the witness list list, the clock of
\* the model running for ticks sub-slots, the synchronizer delivering msgs;
\* the fields of the pool are set beside it
Built(list, ticks, msgs) ==
    /\ active = list
    /\ horizon = StartTime + ticks
    /\ incoming = msgs
    /\ \E c \in { {Genesis.hash}, {Genesis.hash} \cup PreCommitted } :
          LET st == recoverBlockcache(EmptyCache(c), 1)
          IN  /\ nodes = st.nodes
              /\ linkedRoot = st.linkedRoot
              /\ committed = st.committed
              /\ txLinked = st.txLinked
              /\ txLocked = st.txLocked
              /\ last = NoCall
              /\ rejected = {}
    /\ stopPc = "none"
    /\ PoolIdle

\* the engine constructed and not started: p.sync is nil
NotStarted(list, ticks, msgs) ==
    /\ Built(list, ticks, msgs)
    /\ PoolNew
    /\ published = PoolMessages
    /\ Loops("new")
    /\ sync = "nil"
    /\ SyncFields({})

\* the engine constructed and started
Constructed(list, ticks, msgs) ==
    /\ Built(list, ticks, msgs)
    /\ PoolNew
    /\ published = PoolMessages
    /\ Started
    /\ sync = "set"
    /\ SyncFields(Controllers)

Init == Constructed(WitnessList, MaxTicks, LoopMessages)

Recover ==
    /\ last = NoCall
    /\ \E blk \in Universe : \E r \in RecoverBlock(Cur, blk) :
          Install(r, "RecoverBlock", blk, "none")

DoVerifyBlock ==
    /\ last = NoCall
    /\ \E blk \in Universe, t \in P2PTypes :
          \E r \in doVerifyBlock(Cur, [blk |-> blk, p2pType |-> t]) :
              Install(r, "doVerifyBlock", blk, t)

Continue ==
    /\ last # NoCall
    /\ last' = NoCall
    /\ UNCHANGED <<cacheVars, loopVars, serviceVars>>

Next == Recover \/ DoVerifyBlock \/ Continue

Spec == Init /\ [][Next]_vars

(***************************************************************************)
(* Reading the record of the call that has just returned.                  *)
(***************************************************************************)
Returned == last.op # "none"

\* the positions of the calls made to op with block hash h
At(op, h) == { i \in 1..Len(last.calls) : last.calls[i] = Ev(op, h) }

Made(op, h) == At(op, h) # {}

\* the hashes op was called with
Hashes(op) == { last.calls[i].hash : i \in { j \in 1..Len(last.calls) : last.calls[j].op = op } }

\* the block of hash h as the call knew it
BlockOf(h) ==
    IF h = last.blk.hash THEN last.blk
    ELSE IF h \in DOMAIN last.pre.nodes THEN last.pre.nodes[h].blk
    ELSE nodes[h].blk

\* handleRecvBlock has returned to doVerifyBlock
Handled == Returned /\ last.op = "doVerifyBlock"

\* the calls handleRecvBlock made for block h
MadeAny(ops, h) == \E op \in ops : Made(op, h)

\* C1: every block that is linked goes through Link, UpdateLib, AddLinkedNode
\* in that order, one right after the other, after verifyBasics accepted it
\* and after its state was verified (or found committed); AddLinkedNode never
\* precedes UpdateLib for the same block.
C1_LinkOrder ==
    Returned =>
        /\ \A h \in Hashes("Link") : \A i \in At("Link", h) :
              /\ i + 2 <= Len(last.calls)
              /\ last.calls[i + 1] = Ev("UpdateLib", h)
              /\ last.calls[i + 2] = Ev("AddLinkedNode", h)
              /\ verifyBasics(BlockOf(h)) = errNil
              /\ h = last.blk.hash => \E j \in At("verifyBasics", h) : j < i
              /\ \/ \E j \in At("verifyBlockOk", h) : j < i
                 \/ \E j \in At("Checkout", h) : j < i /\ h \in last.pre.committed
        /\ \A h \in Hashes("AddLinkedNode") : \A i \in At("AddLinkedNode", h) :
              /\ \E j \in At("UpdateLib", h) : j < i
              /\ \E j \in At("Link", h) : j < i
        /\ \A h \in Hashes("UpdateLib") : \A i \in At("UpdateLib", h) :
              \E j \in At("Link", h) : j < i

\* a call that linked the received block and then a child of it
C1_Witness ==
    /\ Returned
    /\ Made("Link", last.blk.hash)
    /\ \E h \in Hashes("AddLinkedNode") : BlockOf(h).parentHash = last.blk.hash

\* the parent of node h is in the cache and Linked
HasLinkedParent(ns, h) ==
    /\ Find(ns, ns[h].blk.parentHash)
    /\ ns[ns[h].blk.parentHash].type = "Linked"
    /\ ns[ns[h].blk.parentHash].blk.hash = ns[h].blk.parentHash

\* a block is linked only when its parent was Linked at that moment
LinkedUnderLinked ==
    Returned =>
        \A h \in Hashes("Link") : \A i \in At("Link", h) :
            \/ /\ Find(last.pre.nodes, BlockOf(h).parentHash)
               /\ last.pre.nodes[BlockOf(h).parentHash].type = "Linked"
            \/ \E j \in At("Link", BlockOf(h).parentHash) : j < i

\* C2 as claimed: every Linked node of the cache has a Linked parent whose
\* hash is the node's parentHash.
C2_Original ==
    \A h \in LinkedSet(nodes) : HasLinkedParent(nodes, h)

\* C2 as amended: every Linked node other than linkedRoot has a Linked
\* parent whose hash is the node's parentHash, and a block is linked only
\* when its parent was Linked at that moment.
C2_LinkedParent ==
    /\ \A h \in LinkedSet(nodes) \ {linkedRoot} : HasLinkedParent(nodes, h)
    /\ linkedRoot \in LinkedSet(nodes)
    /\ LinkedUnderLinked

\* blocks arrived out of order, verifications failed and a block was over
\* the limit, and the cache holds Linked nodes above a root that moved
C2_Witness ==
    /\ linkedRoot # Genesis.hash
    /\ Cardinality(LinkedSet(nodes)) >= 3
    /\ \E h \in DOMAIN nodes : nodes[h].type = "Single" /\ nodes[h].serialNum >= blockNumPerWitness
    /\ 21 \in committed \/ 21 \notin DOMAIN nodes
    /\ Returned /\ Cardinality(Hashes("Link")) >= 2

\* C3: every Linked node has 0 <= serialNum < blockNumPerWitness, and the
\* serialNum of a Linked node below the root is 0 when its parent's witness
\* or slot differs from its own and the parent's serialNum + 1 otherwise.
C3_SerialNum ==
    \A h \in LinkedSet(nodes) :
        /\ 0 <= nodes[h].serialNum
        /\ nodes[h].serialNum < blockNumPerWitness
        /\ h # linkedRoot =>
              LET n == nodes[h]
                  par == nodes[n.blk.parentHash]
              IN  IF \/ par.blk.witness # n.blk.witness
                     \/ par.blk.time \div (TicksPerSec * SlotLength)
                           # n.blk.time \div (TicksPerSec * SlotLength)
                  THEN n.serialNum = 0
                  ELSE n.serialNum = par.serialNum + 1

\* the sixth block of the witness in the slot was linked as a child, in the
\* call that linked its parent, and another one was linked with serialNum 0
C3_Witness ==
    /\ Returned
    /\ \E h \in Hashes("Link") \ {last.blk.hash} :
          /\ nodes[h].type = "Linked"
          /\ nodes[h].serialNum = blockNumPerWitness - 1
    /\ \E h \in LinkedSet(nodes) \ {linkedRoot} : nodes[h].serialNum = 0

\* C4 as claimed: handleRecvBlock for a block already in the cache returns
\* errDuplicate and changes nothing; a block fed twice is accepted (nil or
\* errSingle) the first time, is a duplicate the second time, and the cache
\* has grown by exactly one node.
DuplicateChangesNothing ==
    Handled /\ Find(last.pre.nodes, last.blk.hash) =>
        /\ last.err = errDuplicate
        /\ nodes = last.pre.nodes
        /\ linkedRoot = last.pre.linkedRoot
        /\ committed = last.pre.committed
        /\ txLinked = last.pre.txLinked
        /\ \A i \in 1..Len(last.calls) : last.calls[i].op = "return"

Accepted == Handled /\ last.err \in {errNil, errSingle}

SecondIsDuplicate ==
    \A r \in handleRecvBlock(Cur, last.blk) :
        /\ r.err = errDuplicate
        /\ r.nodes = nodes
        /\ r.calls = <<>>

C4_Original ==
    /\ DuplicateChangesNothing
    /\ Accepted =>
          /\ ~Find(last.pre.nodes, last.blk.hash)
          /\ SecondIsDuplicate
          /\ Cardinality(DOMAIN nodes) = Cardinality(DOMAIN last.pre.nodes) + 1

\* C4 as amended: handleRecvBlock for a block already in the cache returns
\* errDuplicate and changes nothing; a block that is accepted (nil or
\* errSingle) was not in the cache, is the only node the call adds, and, as
\* long as the call's LIB advance did not drop it, is a duplicate when fed
\* again; the cache has grown by exactly one node when the call removed none.
C4_Duplicate ==
    /\ DuplicateChangesNothing
    /\ Accepted =>
          /\ ~Find(last.pre.nodes, last.blk.hash)
          /\ (DOMAIN nodes) \ (DOMAIN last.pre.nodes) \subseteq {last.blk.hash}
          /\ Find(nodes, last.blk.hash) => SecondIsDuplicate
          /\ (DOMAIN last.pre.nodes) \subseteq (DOMAIN nodes) =>
                Cardinality(DOMAIN nodes) = Cardinality(DOMAIN last.pre.nodes) + 1

\* a block of the cache was fed again
C4_Witness ==
    /\ Handled
    /\ Find(last.pre.nodes, last.blk.hash)
    /\ last.err = errDuplicate
    /\ last.blk.sign

\* an accepted block was dropped from the cache by the LIB advance of the
\* call that linked it
C4_WitnessDropped ==
    /\ Accepted
    /\ ~Find(nodes, last.blk.hash)

\* C5: handleRecvBlock for a block that passes verifyBasics and whose
\* parent is absent from the cache, or present but not Linked, adds the
\* block as a Single node, returns errSingle, and verifies, commits, links
\* and notifies nothing; head and LIB are unchanged.
ParentNotLinked ==
    \/ ~Find(last.pre.nodes, last.blk.parentHash)
    \/ last.pre.nodes[last.blk.parentHash].type # "Linked"

C5_Single ==
    /\ Handled
    /\ ~Find(last.pre.nodes, last.blk.hash)
    /\ verifyBasics(last.blk) = errNil
    /\ ParentNotLinked
    => /\ last.err = errSingle
       /\ nodes = last.pre.nodes @@ (last.blk.hash :> NewNode(last.blk))
       /\ nodes[last.blk.hash].type = "Single"
       /\ \A i \in 1..Len(last.calls) :
             last.calls[i].op \in {"verifyBasics", "Add", "return", "BroadcastNewBlockHash"}
       /\ CacheHead(nodes) = CacheHead(last.pre.nodes)
       /\ linkedRoot = last.pre.linkedRoot
       /\ committed = last.pre.committed
       /\ txLinked = last.pre.txLinked

\* a block arrived whose parent is in the cache as a Single node
C5_Witness ==
    /\ Handled
    /\ last.err = errSingle
    /\ Find(last.pre.nodes, last.blk.parentHash)
    /\ last.pre.nodes[last.blk.parentHash].type = "Single"
    /\ Find(nodes, last.blk.hash)

\* a block arrived whose parent is not in the cache
C5_WitnessAbsent ==
    /\ Handled
    /\ last.err = errSingle
    /\ ~Find(last.pre.nodes, last.blk.parentHash)

(***************************************************************************)
(* Out-of-order arrival: the blocks that wait in the cache for the block   *)
(* that has just been received.                                            *)
(***************************************************************************)
\* the cache the call started from, with the received block added
PreWith == last.pre.nodes @@ (last.blk.hash :> NewNode(last.blk))

Waiting == Subtree(PreWith, last.blk.hash) \ {last.blk.hash}

\* the serialNum addExistingBlock computes for a block of Waiting, or for
\* the received block itself
RECURSIVE ExpectedSerial(_)
ExpectedSerial(h) ==
    LET par == BlockOf(h).parentHash
    IN  IF h = last.blk.hash
        THEN SerialNumOf(last.pre.nodes[par], last.blk)
        ELSE SerialNumOf([blk |-> BlockOf(par), serialNum |-> ExpectedSerial(par)],
                         BlockOf(h))

\* h waits, and every block from h up to the received one verifies against
\* its parent's state and is within the limit of its witness
RECURSIVE ValidWaiting(_)
ValidWaiting(h) ==
    /\ h \in Waiting
    /\ BlockOf(h).root \/ h \in last.pre.committed
    /\ ExpectedSerial(h) < blockNumPerWitness
    /\ BlockOf(h).parentHash # last.blk.hash => ValidWaiting(BlockOf(h).parentHash)

WentThroughLink(h) ==
    /\ Made("Link", h)
    /\ Made("UpdateLib", h)
    /\ Made("AddLinkedNode", h)

ParentArrived ==
    /\ Handled
    /\ ~Find(last.pre.nodes, last.blk.hash)
    /\ Made("Link", last.blk.hash)

\* a is a strictly better head than b
StrictlyBetter(a, b) ==
    \/ BlockOf(a).number > BlockOf(b).number
    \/ BlockOf(a).number = BlockOf(b).number /\ BlockOf(a).time < BlockOf(b).time

\* C6 as claimed: when the parent of waiting blocks arrives and is linked,
\* every valid waiting descendant is linked in the same call, going through
\* Link, UpdateLib and AddLinkedNode, and the head advances to the highest
\* of them.
C6_Original ==
    ParentArrived =>
        \A h \in Waiting : ValidWaiting(h) =>
            /\ WentThroughLink(h)
            /\ ~StrictlyBetter(h, CacheHead(nodes))

\* C6 as amended: when the parent of waiting blocks arrives and is linked,
\* every valid waiting descendant is, in the same call, either linked, going
\* through Link, UpdateLib and AddLinkedNode, or dropped from the cache by
\* the LIB advance of a block linked before it; none is left Single, and
\* the head is at least as high as every one of them that is still cached.
C6_OutOfOrder ==
    ParentArrived =>
        \A h \in Waiting : ValidWaiting(h) =>
            /\ WentThroughLink(h) \/ ~Find(nodes, h)
            /\ Find(nodes, h) =>
                  /\ nodes[h].type = "Linked"
                  /\ WentThroughLink(h)
                  /\ ~StrictlyBetter(h, CacheHead(nodes))

\* a block arrived after its child and its grandchild; both were linked in
\* the call and the grandchild is the head
C6_Witness ==
    /\ ParentArrived
    /\ \E c \in Waiting : \E g \in Waiting :
          /\ BlockOf(c).parentHash = last.blk.hash
          /\ BlockOf(g).parentHash = c
          /\ WentThroughLink(c) /\ WentThroughLink(g)
          /\ CacheHead(nodes) = g
          /\ CacheHead(last.pre.nodes) # g

(***************************************************************************)
(* Over-limit rejection.                                                   *)
(***************************************************************************)
SameWitnessAndSlot(a, b) ==
    /\ a.witness = b.witness
    /\ a.time \div (TicksPerSec * SlotLength) = b.time \div (TicksPerSec * SlotLength)

\* the Linked blocks of the cache ns that end at h in one unbroken run of
\* blocks of blk's witness in blk's slot
RECURSIVE Run(_, _, _)
Run(ns, h, blk) ==
    IF Find(ns, h) /\ ns[h].type = "Linked" /\ SameWitnessAndSlot(ns[h].blk, blk)
    THEN {h} \cup Run(ns, ns[h].blk.parentHash, blk)
    ELSE {}

VerifyOrLinkOps ==
    {"Lock", "verifyBlockOk", "verifyBlockFail", "Checkout", "Commit", "Del",
     "Link", "UpdateLib", "AddLinkedNode"}

\* C7: a block that would be the seventh in a row of its witness in its
\* slot makes addExistingBlock return errOutOfLimit without verifying,
\* committing, linking or notifying the tx pool; the run of Linked blocks
\* it would extend is unchanged and ends with the sixth (no run of the cache
\* is longer than six), and a rejected block is never Linked afterwards.
C7_OutOfLimit ==
    /\ Handled
       /\ ~Find(last.pre.nodes, last.blk.hash)
       /\ verifyBasics(last.blk) = errNil
       /\ ~ParentNotLinked
       /\ SerialNumOf(last.pre.nodes[last.blk.parentHash], last.blk) >= blockNumPerWitness
       => /\ last.err = errOutOfLimit
          /\ ~MadeAny(VerifyOrLinkOps, last.blk.hash)
          /\ \A i \in 1..Len(last.calls) : last.calls[i].op \notin VerifyOrLinkOps
          /\ nodes = last.pre.nodes @@
                (last.blk.hash :> [NewNode(last.blk) EXCEPT !.serialNum = blockNumPerWitness])
          /\ linkedRoot = last.pre.linkedRoot
          /\ committed = last.pre.committed
          /\ txLinked = last.pre.txLinked
          /\ last.pre.nodes[last.blk.parentHash].serialNum = blockNumPerWitness - 1
          /\ Run(nodes, last.blk.parentHash, last.blk)
                = Run(last.pre.nodes, last.blk.parentHash, last.blk)
    /\ Returned =>
          \A h \in Hashes("errOutOfLimit") :
              /\ ~MadeAny(VerifyOrLinkOps, h)
              /\ h \notin committed \ last.pre.committed
              /\ h \notin txLinked \ last.pre.txLinked
              /\ h \in rejected
    /\ \A h \in LinkedSet(nodes) :
          Cardinality(Run(nodes, h, nodes[h].blk)) <= blockNumPerWitness
    /\ rejected \cap LinkedSet(nodes) = {}

\* the seventh block of W1 in slot 1 was rejected while the six before it
\* are Linked in the cache
C7_Witness ==
    /\ Handled
    /\ last.err = errOutOfLimit
    /\ Cardinality(Run(nodes, last.blk.parentHash, last.blk)) = blockNumPerWitness
    /\ nodes[last.blk.hash].type = "Single"

\* a rejected block was dropped from the cache and received again
C7_WitnessAgain ==
    /\ Handled
    /\ last.blk.hash \in rejected
    /\ last.err = errSingle

(***************************************************************************)
(* Failed state verification.                                              *)
(***************************************************************************)
LinkOps == {"Commit", "Link", "UpdateLib", "AddLinkedNode"}

\* verifyBlock failed for h between Lock and Release, and Del followed
FailedAndDeleted(h) ==
    \E i \in At("verifyBlockFail", h) :
        /\ i > 1
        /\ i + 2 <= Len(last.calls)
        /\ last.calls[i - 1].op = "Lock"
        /\ last.calls[i + 1].op = "Release"
        /\ last.calls[i + 2] = Ev("Del", h)

\* the parent of h was Linked when h was verified
ParentWasLinked(h) ==
    LET ph == BlockOf(h).parentHash
    IN  \/ ph \in LinkedSet(last.pre.nodes)
        \/ \E i \in At("Link", ph) : \A j \in At("verifyBlockFail", h) : i < j

\* the call is handleRecvBlock for a new block of a Linked parent that
\* passes the basic checks and the limit and fails verifyBlock
FailsVerification ==
    /\ Handled
    /\ ~Find(last.pre.nodes, last.blk.hash)
    /\ verifyBasics(last.blk) = errNil
    /\ ~ParentNotLinked
    /\ ~OutOfLimit(SerialNumOf(last.pre.nodes[last.blk.parentHash], last.blk))
    /\ ~Checkout(last.pre, last.blk.hash)
    /\ verifyBlock(last.blk, last.pre.nodes[last.blk.parentHash].blk, FALSE) # errNil

\* C8: when verifyBlock fails for a block whose parent is Linked,
\* addExistingBlock deletes the node from the cache and returns the error;
\* the block is neither committed nor linked nor handed to the tx pool;
\* head, LIB and the tx pool's linked set are as before the call, and the
\* tx-pool lock is released.
C8_VerifyFails ==
    /\ Returned =>
          \A h \in Hashes("verifyBlockFail") :
              /\ FailedAndDeleted(h)
              /\ ParentWasLinked(h)
              /\ ~Find(nodes, h)
              /\ ~MadeAny(LinkOps \cup {"verifyBlockOk", "Checkout"}, h)
              /\ h \notin committed
              /\ h \notin txLinked
    /\ FailsVerification =>
          /\ last.err = errVerifyBlock
          /\ Made("verifyBlockFail", last.blk.hash)
          /\ \A i \in 1..Len(last.calls) : last.calls[i].op \notin LinkOps
          /\ CacheHead(nodes) = CacheHead(last.pre.nodes)
          /\ linkedRoot = last.pre.linkedRoot
          /\ LinkedSet(nodes) = LinkedSet(last.pre.nodes)
          /\ nodes = Restrict(last.pre.nodes, DOMAIN nodes)
          /\ txLinked = last.pre.txLinked
          /\ committed = last.pre.committed
    /\ Returned /\ last.err = errVerifyBlock => Made("verifyBlockFail", last.blk.hash)
    /\ txLocked = FALSE

\* block 21 failed verification under its Linked parent and took the child
\* that waited for it out of the cache with it
C8_Witness ==
    /\ FailsVerification
    /\ last.err = errVerifyBlock
    /\ \E h \in DOMAIN last.pre.nodes :
          /\ last.pre.nodes[h].blk.parentHash = last.blk.hash
          /\ ~Find(nodes, h)

\* a waiting block failed verification when its parent arrived and was linked
C8_WitnessChild ==
    /\ Handled
    /\ last.err = errNil
    /\ \E h \in Hashes("verifyBlockFail") : h # last.blk.hash

(***************************************************************************)
(* Broadcast of the block hash.                                            *)
(***************************************************************************)
Broadcasts == { i \in 1..Len(last.calls) : last.calls[i].op = "BroadcastNewBlockHash" }

\* C9: a NewBlockHash {number, hash} goes out only for a NewBlock message,
\* after handleRecvBlock returned nil or errSingle for it; never for a
\* SyncBlockResponse, a duplicate, an over-limit block or a block that
\* failed verifyBasics or verifyBlock.
C9_Broadcast ==
    Returned =>
        /\ \A i \in Broadcasts :
              /\ last.op = "doVerifyBlock"
              /\ last.p2pType = NewBlock
              /\ last.err \in {errNil, errSingle}
              /\ last.calls[i].hash = last.blk.hash
              /\ last.calls[i].number = last.blk.number
              /\ \E j \in At("return", last.blk.hash) : j < i
        /\ Cardinality(Broadcasts) <= 1
        /\ last.p2pType # NewBlock => Broadcasts = {}
        /\ last.err \in {errDuplicate, errOutOfLimit, errVerifyBasics, errVerifyBlock}
              => Broadcasts = {}

\* a NewBlock that was linked has been announced
C9_Witness ==
    /\ Handled
    /\ last.p2pType = NewBlock
    /\ last.err = errNil
    /\ Made("Link", last.blk.hash)
    /\ Broadcasts # {}

\* a NewBlock that was rejected as over the limit has not been announced
C9_WitnessQuiet ==
    /\ Handled
    /\ last.p2pType = NewBlock
    /\ last.err = errOutOfLimit
    /\ Broadcasts = {}

(***************************************************************************)
(* RecoverBlock against handleRecvBlock.                                   *)
(***************************************************************************)
\* what a call left: its error, the nodes of the cache with their types,
\* parents and serial numbers, the root and the head
Outcome(r) ==
    [err |-> r.err, nodes |-> r.nodes, linkedRoot |-> r.linkedRoot, head |-> CacheHead(r.nodes)]

pubkey == "W1"

\* a witness owning the six sub-slots of a slot
witnessOfSlot(t, witnessList) ==
    witnessList[((t \div blockNumPerWitness) % Len(witnessList)) + 1]

\* spec 4.4: ((now / subSlotTime) % len(witnesses)) indexes the witness list
witnessOfNanoSec(t, witnessList) == witnessList[(t % Len(witnessList)) + 1]

\* the re-check of a round passing whoever the witness is
StillWitnessUnchecked(t) == TRUE

\* lines 241-243: the witness of the time of the tick, in the list of the
\* head, is this node
StillWitness(t) == witnessOfNanoSec(t, active) = pubkey

\* txPool.PendingTx(): the head the producer builds on
PendingTx ==
    LET h == CacheHead(nodes) IN [hash |-> h, number |-> nodes[h].blk.number]

\* the block generateBlock signs on top of head at time t; its hash is new
generateBlock(head, t) ==
    Blk(100 + Len(produced), head.number + 1, head.hash, pubkey, t, TRUE, TRUE)

Tick ==
    /\ now < horizon
    /\ now' = now + 1
    /\ UNCHANGED <<serviceVars, cacheVars, last, exitSignal, quitGenerateMode, closed,
                   verifyVars, scheduleVars>>

\* line 127: Stop closes exitSignal and goes on to wait for the loops
Stop ==
    /\ sync # "nil"
    /\ stopPc = "none"
    /\ ~exitSignal
    /\ exitSignal' = TRUE
    /\ stopPc' = "wait"
    /\ UNCHANGED <<syncRest, poolVars, cacheVars, last, now, quitGenerateMode, closed,
                   verifyVars, scheduleVars>>

\* line 192: case blkMsg := <-p.sync.IncomingBlock()
VerifyLoopReceive ==
    /\ vpc = "select"
    /\ \E m \in incoming : vmsg' = m
    /\ vpc' = "gate"
    /\ UNCHANGED <<serviceVars, cacheVars, last, now, exitSignal, quitGenerateMode, closed,
                   vchan, scheduleVars>>

\* lines 203-204: case <-p.exitSignal
VerifyLoopExit ==
    /\ vpc = "select"
    /\ exitSignal
    /\ vpc' = "done"
    /\ UNCHANGED <<serviceVars, cacheVars, last, now, exitSignal, quitGenerateMode, closed,
                   vmsg, vchan, scheduleVars>>

\* line 194: the channel expression p.quitGenerateMode is evaluated.  The
\* read is not ordered with the write of line 230: it yields the channel
\* held before the write or the one held after it, as the steps interleave.
VerifyLoopGate ==
    /\ vpc = "gate"
    /\ vchan' = quitGenerateMode
    /\ vpc' = "wait"
    /\ UNCHANGED <<serviceVars, cacheVars, last, now, exitSignal, quitGenerateMode, closed,
                   vmsg, scheduleVars>>

\* lines 193-195: the receive returns once that channel is closed
VerifyLoopWait ==
    /\ vpc = "wait"
    /\ vchan \in closed
    /\ vpc' = "limit"
    /\ UNCHANGED <<serviceVars, cacheVars, last, now, exitSignal, quitGenerateMode, closed,
                   vmsg, vchan, scheduleVars>>

\* lines 196-201: a block too far ahead is dropped, another enters doVerifyBlock
VerifyLoopLimit ==
    /\ vpc = "limit"
    /\ IF nodes[CacheHead(nodes)].blk.number + maxBlockNumber < vmsg.blk.number
       THEN vpc' = "select" /\ vmsg' = NoMsg
       ELSE vpc' = "doVerifyBlock" /\ vmsg' = vmsg
    /\ UNCHANGED <<serviceVars, cacheVars, last, now, exitSignal, quitGenerateMode, closed,
                   vchan, scheduleVars>>

\* line 201: doVerifyBlock runs handleRecvBlock and returns
VerifyLoopVerify ==
    /\ vpc = "doVerifyBlock"
    /\ \E r \in doVerifyBlock(Cur, vmsg) : InstallCache(r)
    /\ vpc' = "select"
    /\ vmsg' = NoMsg
    /\ UNCHANGED <<serviceVars, last, now, exitSignal, quitGenerateMode, closed, vchan,
                   scheduleVars>>

verifyLoop ==
    \/ VerifyLoopReceive
    \/ VerifyLoopExit
    \/ VerifyLoopGate
    \/ VerifyLoopWait
    \/ VerifyLoopLimit
    \/ VerifyLoopVerify

\* a wake-up of a node catching up that marks the slot as served
ScheduleLoopCatchingUpMarksSlot ==
    /\ spc = "select"
    /\ now >= wakeAt
    /\ wakeAt' = now + nextSchedule
    /\ slotFlag' = slotOfSec(SecOfTime(now))
    /\ UNCHANGED <<serviceVars, cacheVars, last, now, exitSignal, quitGenerateMode, closed,
                   verifyVars, spc, nextSchedule, num, genHead, tickedAt, histVars>>

\* lines 218-224: the timer fired and the node is catching up.  The heights
\* of the neighbours are not followed beside the loops: at any wake the
\* node may be catching up or not.
ScheduleLoopCatchingUp ==
    /\ spc = "select"
    /\ now >= wakeAt
    /\ wakeAt' = now + nextSchedule
    /\ UNCHANGED <<serviceVars, cacheVars, last, now, exitSignal, quitGenerateMode, closed,
                   verifyVars, spc, nextSchedule, slotFlag, num, genHead, tickedAt, histVars>>

\* the loop of a round going on after the last block
LastOfRoundLate(n) == n = blockNumPerWitness

\* line 235
LastOfRound(n) == n = blockNumPerWitness - 1

\* line 229
ShouldProduce(flag, t) ==
    /\ flag # slotOfSec(SecOfTime(t))
    /\ witnessOfNanoSec(t, active) = pubkey

\* what gen did with the block blk it broadcast: the result r of handling it
Produced(blk, r) ==
    [blk |-> blk, round |-> quitGenerateMode, num |-> num, err |-> r.err,
     head |-> CacheHead(nodes),
     linked |-> \E i \in 1..Len(r.calls) : r.calls[i] = Ev("Link", blk.hash),
     serialNum |-> IF Find(r.nodes, blk.hash) THEN r.nodes[blk.hash].serialNum ELSE 0 - 1]

\* lines 218-232 and 250: the timer fired; when the slot is new and belongs
\* to this node the channel is made anew and a round starts
ScheduleLoopWake ==
    /\ spc = "select"
    /\ now >= wakeAt
    /\ IF ShouldProduce(slotFlag, now)
       THEN /\ quitGenerateMode' = quitGenerateMode + 1
            /\ slotFlag' = slotOfSec(SecOfTime(now))
            /\ num' = 0
            /\ genHead' = PendingTx
            /\ tickedAt' = now
            /\ spc' = "gen"
            /\ rounds' = Append(rounds, [slot |-> slotOfSec(SecOfTime(now)), time |-> now,
                                         flag |-> slotFlag, head |-> PendingTx, gens |-> 0])
            /\ UNCHANGED <<nextSchedule, wakeAt, produced>>
       ELSE /\ nextSchedule' = timeUntilNextSchedule(now)
            /\ wakeAt' = now + timeUntilNextSchedule(now)
            /\ UNCHANGED <<quitGenerateMode, slotFlag, num, genHead, tickedAt, spc, histVars>>
    /\ UNCHANGED <<serviceVars, cacheVars, last, now, exitSignal, closed, verifyVars>>

\* lines 234-237 and 258-283: gen; generateBlock may fail
gen ==
    /\ spc = "gen"
    /\ \/ UNCHANGED <<cacheVars, produced>>
       \/ \E r \in handleRecvBlock(Cur, generateBlock(genHead, now)) :
             /\ InstallCache(r)
             /\ produced' = Append(produced, Produced(generateBlock(genHead, now), r))
    /\ rounds' = [rounds EXCEPT ![Len(rounds)].gens = @ + 1]
    /\ spc' = IF LastOfRound(num) THEN "close" ELSE "ticker"
    /\ UNCHANGED <<serviceVars, last, now, exitSignal, quitGenerateMode, closed, verifyVars,
                   nextSchedule, wakeAt, slotFlag, num, genHead, tickedAt>>

\* lines 238-245: the next tick, and the witness of the time it is taken at
ScheduleLoopTicker ==
    /\ spc = "ticker"
    /\ now > tickedAt
    /\ tickedAt' = now
    /\ genHead' = PendingTx
    /\ IF ~StillWitness(now)
       THEN spc' = "close" /\ num' = num
       ELSE spc' = "gen" /\ num' = num + 1
    /\ UNCHANGED <<serviceVars, cacheVars, last, now, exitSignal, quitGenerateMode, closed,
                   verifyVars, nextSchedule, wakeAt, slotFlag, histVars>>

\* a round that closes its channel only after the last block
ScheduleLoopCloseLast ==
    /\ spc = "close"
    /\ closed' = IF LastOfRound(num) THEN closed \cup {quitGenerateMode} ELSE closed
    /\ nextSchedule' = timeUntilNextSchedule(now)
    /\ wakeAt' = now + timeUntilNextSchedule(now)
    /\ spc' = "select"
    /\ UNCHANGED <<serviceVars, cacheVars, last, now, exitSignal, quitGenerateMode, verifyVars,
                   slotFlag, num, genHead, tickedAt, histVars>>

\* lines 247-250
ScheduleLoopClose ==
    /\ spc = "close"
    /\ closed' = closed \cup {quitGenerateMode}
    /\ nextSchedule' = timeUntilNextSchedule(now)
    /\ wakeAt' = now + timeUntilNextSchedule(now)
    /\ spc' = "select"
    /\ UNCHANGED <<serviceVars, cacheVars, last, now, exitSignal, quitGenerateMode, verifyVars,
                   slotFlag, num, genHead, tickedAt, histVars>>

\* lines 252-253: case <-p.exitSignal
ScheduleLoopExit ==
    /\ spc = "select"
    /\ exitSignal
    /\ spc' = "done"
    /\ UNCHANGED <<serviceVars, cacheVars, last, now, exitSignal, quitGenerateMode, closed,
                   verifyVars, nextSchedule, wakeAt, slotFlag, num, genHead, tickedAt, histVars>>

scheduleLoop ==
    \/ ScheduleLoopCatchingUp
    \/ ScheduleLoopWake
    \/ gen
    \/ ScheduleLoopTicker
    \/ ScheduleLoopClose
    \/ ScheduleLoopExit

NextLoop == Tick \/ Stop \/ verifyLoop \/ scheduleLoop

SpecLoop == Init /\ [][NextLoop]_vars

\* the schedule loop alone, with three witnesses or with this node the only
\* one, and no block coming from the synchronizer
InitProduce == \E list \in {WitnessList, SoloList} : Constructed(list, RoundTicks, {})

NextProduce == Tick \/ Stop \/ scheduleLoop

SpecProduce == InitProduce /\ [][NextProduce]_vars

\* both loops, the synchronizer delivering the blocks of a fork that wins
InitRace == Constructed(WitnessList, MaxTicks, RaceMessages)

SpecRace == InitRace /\ [][NextLoop]_vars

\* the producer is inside a round: quitGenerateMode is made anew and open
InRound == spc \in {"gen", "ticker", "close"}

\* C10: while scheduleLoop is inside a production round, from the make of
\* quitGenerateMode to its close, verifyLoop is not inside doVerifyBlock for
\* a block taken from the synchronizer.
C10_NoOverlap == ~(InRound /\ vpc = "doVerifyBlock")

\* verifyLoop waited on the channel New closed, scheduleLoop then made the
\* next one, and the block is in doVerifyBlock while gen is about to run
C10_Witness ==
    /\ spc = "gen"
    /\ vpc = "doVerifyBlock"
    /\ vchan # quitGenerateMode
    /\ quitGenerateMode \notin closed

(***************************************************************************)
(* Production rounds.                                                      *)
(***************************************************************************)
\* the blocks gen broadcast in round k, as positions of produced
ProducedIn(k) == { i \in 1..Len(produced) : produced[i].round = k }

\* the blocks gen broadcast with a time in slot s
ProducedAt(s) ==
    { i \in 1..Len(produced) : slotOfSec(SecOfTime(produced[i].blk.time)) = s }

\* C11: a round is entered only in a slot other than slotFlag in which this
\* node is the witness, slotFlag is the slot of the last round entered, no
\* two rounds are entered in one slot, a round calls gen at most
\* blockNumPerWitness times, and at most that many blocks of this node are
\* broadcast per round and per slot.
C11_OncePerSlot ==
    /\ slotFlag = IF rounds = <<>> THEN 0 ELSE rounds[Len(rounds)].slot
    /\ \A k \in 1..Len(rounds) :
          /\ rounds[k].flag # rounds[k].slot
          /\ rounds[k].slot = slotOfSec(SecOfTime(rounds[k].time))
          /\ witnessOfNanoSec(rounds[k].time, active) = pubkey
          /\ rounds[k].gens <= blockNumPerWitness
          /\ Cardinality(ProducedIn(k)) <= rounds[k].gens
          /\ \A j \in 1..Len(rounds) : j < k => rounds[j].slot < rounds[k].slot
    /\ \A i \in 1..Len(produced) :
          /\ produced[i].blk.witness = pubkey
          /\ Cardinality(ProducedAt(slotOfSec(SecOfTime(produced[i].blk.time))))
                <= blockNumPerWitness
    /\ num < blockNumPerWitness

\* a round of six calls of gen is over and the round of the next slot is on
C11_Witness ==
    /\ Len(rounds) = 2
    /\ rounds[1].gens = blockNumPerWitness
    /\ Cardinality(ProducedIn(1)) = blockNumPerWitness

\* round k is over: quitGenerateMode has been closed again
RoundOver(k) == k \in 1..Len(rounds) /\ k \in closed

\* this node is the witness of every sub-slot of the slot of round k
WholeSlot(k) ==
    \A i \in 0..(blockNumPerWitness - 1) :
        witnessOfNanoSec(rounds[k].slot * blockNumPerWitness + i, active) = pubkey

\* every generateBlock of round k succeeded
NoFailure(k) == Cardinality(ProducedIn(k)) = rounds[k].gens

\* every block of round k was generated in its own sub-slot of the slot
Timely(k) ==
    \A i \in ProducedIn(k) :
        produced[i].blk.time = rounds[k].slot * blockNumPerWitness + produced[i].num

\* the i-th block broadcast in round k
NthOf(k, i) == produced[CHOOSE j \in ProducedIn(k) : produced[j].num = i - 1]

\* round k broadcast six blocks numbered head+1 .. head+6, each of this
\* node, each on the one before, all Linked with serialNum 0 .. 5
SixInARow(k) ==
    /\ Cardinality(ProducedIn(k)) = blockNumPerWitness
    /\ \A i \in 1..blockNumPerWitness :
          /\ \E j \in ProducedIn(k) : produced[j].num = i - 1
          /\ NthOf(k, i).blk.number = rounds[k].head.number + i
          /\ NthOf(k, i).blk.witness = pubkey
          /\ NthOf(k, i).blk.parentHash =
                IF i = 1 THEN rounds[k].head.hash ELSE NthOf(k, i - 1).blk.hash
          /\ NthOf(k, i).err = errNil
          /\ NthOf(k, i).linked
          /\ NthOf(k, i).serialNum = i - 1

C13_NoError == \A i \in 1..Len(produced) : produced[i].err = errNil

\* the head gen built on was dropped from the cache by a block the verify
\* loop linked during the round, and the block of this node stays Single
C13_Witness ==
    /\ produced # <<>>
    /\ produced[Len(produced)].err = errSingle
    /\ ~Find(nodes, produced[Len(produced)].blk.parentHash)
    /\ nodes[produced[Len(produced)].blk.hash].type = "Single"

(***************************************************************************)
(* The synchronizer, src/consensus/synchro/sync.go, and the engine's Start, *)
(* Stop and Mode.  The height, block-hash and block components, the range   *)
(* controller and the request handler are not part of the source at hand:   *)
(* they are modelled from the specification, section 4.2.                   *)
(***************************************************************************)
\* sync.go line 84
syncLagThreshold == 120

\* spec 4.2: the window of the range controller
maxSyncRange == 1000

\* the number of heights above the head the range controller may skip
MaxSkip == 1

Peers == {"p1", "p2"}

SyncBlockRequest == "SyncBlockRequest"

NewBlockRequest == "NewBlockRequest"

\* s.bCache.Head().Head.Number
HeadNumber == nodes[CacheHead(nodes)].blk.number

\* IsCatchingUp counting a head exactly syncLagThreshold behind
IsCatchingUpAtThreshold(number, nHeight) == number + syncLagThreshold <= nHeight

\* sync.go lines 83-85
IsCatchingUp(number, nHeight) == number + syncLagThreshold < nHeight

\* pob.go lines 134-142
Mode ==
    IF sync = "nil"
    THEN "ModeInit"
    ELSE IF IsCatchingUp(HeadNumber, neighborHeight) THEN "ModeSync" ELSE "ModeNormal"

\* pob.go lines 116-123: the synchronizer is made and both loops are launched
Start ==
    /\ sync = "nil"
    /\ sync' = "set"
    /\ running' = Controllers
    /\ vpc' = "select"
    /\ spc' = "select"
    /\ nextSchedule' = timeUntilNextSchedule(now)
    /\ wakeAt' = now + timeUntilNextSchedule(now)
    /\ UNCHANGED <<cacheVars, last, poolVars, stopPc, neighborHeight, quitCh, handlerQuit,
                   closePc, hashes, requests, now, exitSignal, quitGenerateMode, closed,
                   vmsg, vchan, slotFlag, num, genHead, tickedAt, histVars>>

\* the heights neighbours report around the lag threshold and the window
SyncHeights ==
    {0, WalLen + 1, WalLen + syncLagThreshold, WalLen + syncLagThreshold + 1,
     WalLen + maxSyncRange + 1}

\* spec 4.2 (heightSync): a SyncHeight message of a neighbour changes the
\* neighbour height.  requests shows what the latest tick sent for as long
\* as the synchronizer holds what the tick read.
NeighborHeightUpdate ==
    /\ sync = "set"
    /\ \E h \in SyncHeights : h # neighborHeight /\ neighborHeight' = h
    /\ requests' = NoTick
    /\ UNCHANGED <<cacheVars, last, loopVars, poolVars, sync, stopPc, quitCh, running,
                   handlerQuit, closePc, hashes>>

\* the blocks whose hashes neighbours advertise
AdvertisedBlocks == { ChainBlock(WalLen + 1), ChainBlock(WalLen + 2) }

\* the blocks the synchronizer hands to the verify loop in answer
SyncMessages == { [blk |-> b, p2pType |-> SyncBlockResponse] : b \in AdvertisedBlocks }

\* the entry blockhashSync holds for hash h, if any
HashEntries(h) == { bh \in hashes : bh.hash = h }

\* spec 4.2 (blockhashSync): replies accumulate as {hash, number, peerIDs}
BlockHashResponse ==
    /\ sync = "set"
    /\ \E b \in AdvertisedBlocks : \E p \in Peers :
          /\ \A bh \in HashEntries(b.hash) : p \notin bh.peerID
          /\ hashes' = (hashes \ HashEntries(b.hash)) \cup
                { [hash |-> b.hash, number |-> b.number,
                   peerID |-> {p} \cup UNION { bh.peerID : bh \in HashEntries(b.hash) }] }
    /\ requests' = NoTick
    /\ UNCHANGED <<cacheVars, last, loopVars, poolVars, sync, stopPc, neighborHeight, quitCh,
                   running, handlerQuit, closePc>>

\* spec 4.2 (rangeController): the window starts above the head, past the
\* heights already satisfied, and ends maxSyncRange above the head
SyncRange(number) ==
    { [start |-> number + 1 + k, end |-> number + maxSyncRange] : k \in 0..MaxSkip }

\* the window of a tick not capped
CapEndNone(end, nHeight) == end

\* lines 119-121 and 149-151
CapEnd(end, nHeight) == IF nHeight < end THEN nHeight ELSE end

\* spec 4.2 (blockhashSync): the advertised hashes of the window
NeighborBlockHashs(start, end) == { bh \in hashes : bh.number \in start..end }

\* the block with hash h among those the network knows
KnownBlocks == {Genesis} \cup { ChainBlock(i) : i \in 1..ChainLen } \cup ForkBlocks

\* the blocks flushed to the chain store: the LIB and its ancestors
RECURSIVE ChainStore(_)
ChainStore(h) ==
    IF \E b \in KnownBlocks : b.hash = h
    THEN {h} \cup ChainStore((CHOOSE b \in KnownBlocks : b.hash = h).parentHash)
    ELSE {}

\* spec 4.2: the block is in the BlockCache or in the chain store
GetBlockByHash(st, h) == Find(st.nodes, h) \/ h \in ChainStore(st.linkedRoot)

\* doBlockSync asking for every advertised hash
NeedsBlockAlways(st, h) == TRUE

\* line 160
NeedsBlock(st, h) == ~GetBlockByHash(st, h)

\* lines 159-166: the requests of one tick for the entries todo, a peer of
\* each entry chosen at random
RECURSIVE RequestBlocks(_, _)
RequestBlocks(st, todo) ==
    IF todo = {}
    THEN {<<>>}
    ELSE LET bh == CHOOSE x \in todo : \A y \in todo : x.hash <= y.hash
             rest == RequestBlocks(st, todo \ {bh})
         IN  IF NeedsBlock(st, bh.hash)
             THEN { <<[type |-> SyncBlockRequest, hash |-> bh.hash, peerID |-> p,
                       found |-> GetBlockByHash(st, bh.hash)]>> \o r :
                       p \in bh.peerID, r \in rest }
             ELSE rest

\* a tick leaves requests unchanged otherwise
SyncTickFrame ==
    UNCHANGED <<cacheVars, last, loopVars, poolVars, sync, stopPc, neighborHeight, quitCh,
                running, handlerQuit, closePc, hashes>>

\* lines 87-98 and 103-104: the height controller broadcasts the height
doHeightSync ==
    /\ "heightSync" \in running
    /\ requests' = [tick |-> "height", head |-> HeadNumber,
                    sent |-> <<[type |-> "SyncHeight", height |-> HeadNumber]>>]
    /\ SyncTickFrame

\* lines 112-128 and 133-134
doBlockhashSync ==
    /\ "blockhashSync" \in running
    /\ \E r \in SyncRange(HeadNumber) :
          LET end == CapEnd(r.end, neighborHeight)
          IN  requests' =
                 [tick |-> "blockhash", head |-> HeadNumber, nHeight |-> neighborHeight,
                  range |-> r,
                  sent |-> IF r.start > end
                           THEN <<>>
                           ELSE <<[type |-> "RequestBlockHash", start |-> r.start,
                                   end |-> end]>>]
    /\ SyncTickFrame

\* lines 142-167 and 185-186
doBlockSync ==
    /\ "blockSync" \in running
    /\ \E r \in SyncRange(HeadNumber) :
          LET end == CapEnd(r.end, neighborHeight)
          IN  \E sent \in IF r.start > end
                          THEN {<<>>}
                          ELSE RequestBlocks(Cur, NeighborBlockHashs(r.start, end)) :
                 requests' =
                    [tick |-> "block", head |-> HeadNumber, nHeight |-> neighborHeight,
                     range |-> r, sent |-> sent]
    /\ SyncTickFrame

\* lines 169-179 and 187-188: a hash a neighbour has just announced
doNewBlockSyncOf(blocks) ==
    /\ "blockSync" \in running
    /\ \E b \in blocks : \E p \in Peers :
          requests' =
             [tick |-> "newblock", head |-> HeadNumber,
              sent |-> IF Find(nodes, b.hash)
                       THEN <<>>
                       ELSE <<[type |-> NewBlockRequest, hash |-> b.hash, peerID |-> p,
                               found |-> FALSE]>>]
    /\ SyncTickFrame

doNewBlockSync == doNewBlockSyncOf(AdvertisedBlocks)

\* lines 105-107, 135-137, 189-191 and 201-203: case <-s.quitCh
ControllerQuit ==
    /\ quitCh
    /\ \E c \in running : running' = running \ {c}
    /\ UNCHANGED <<cacheVars, last, loopVars, poolVars, sync, stopPc, neighborHeight, quitCh,
                   handlerQuit, closePc, hashes, requests>>

\* both loops of the engine returned one of them only
JoinedEither == vpc = "done" \/ spc = "done"

\* pob.go line 128: p.wg.Wait() returns
Joined == vpc = "done" /\ spc = "done"

\* pob.go lines 128-130: the loops are joined and sync.Close is called
StopWait ==
    /\ stopPc = "wait"
    /\ Joined
    /\ stopPc' = "close"
    /\ closePc' = "call"
    /\ UNCHANGED <<cacheVars, last, loopVars, poolVars, sync, neighborHeight, quitCh, running,
                   handlerQuit, hashes, requests>>

\* lines 65-68: the handler and the three components are closed
SyncCloseHandler ==
    /\ closePc = "call"
    /\ handlerQuit' = TRUE
    /\ closePc' = "quit"
    /\ UNCHANGED <<cacheVars, last, loopVars, poolVars, sync, stopPc, neighborHeight, quitCh,
                   running, hashes, requests>>

\* line 70
SyncCloseQuit ==
    /\ closePc = "quit"
    /\ quitCh' = TRUE
    /\ closePc' = "wait"
    /\ UNCHANGED <<cacheVars, last, loopVars, poolVars, sync, stopPc, neighborHeight, running,
                   handlerQuit, hashes, requests>>

\* lines 71-73 and pob.go line 131: the controllers are joined, Close and
\* Stop return
SyncCloseWait ==
    /\ closePc = "wait"
    /\ running = {}
    /\ closePc' = "stopped"
    /\ stopPc' = "returned"
    /\ UNCHANGED <<cacheVars, last, loopVars, poolVars, sync, neighborHeight, quitCh, running,
                   handlerQuit, hashes, requests>>

Close == SyncCloseHandler \/ SyncCloseQuit \/ SyncCloseWait

\* the engine from New on: Start, the neighbours' heights, blocks, Stop
InitMode == NotStarted(WitnessList, 0, SyncMessages)

NextMode ==
    \/ Start
    \/ NeighborHeightUpdate
    \/ verifyLoop
    \/ ScheduleLoopExit
    \/ Stop

SpecMode == InitMode /\ [][NextMode]_vars

\* the ticks of the synchronizer while the engine runs
InitSync == Constructed(WitnessList, 0, SyncMessages)

ticks == doHeightSync \/ doBlockhashSync \/ doBlockSync \/ doNewBlockSync

NextSync ==
    \/ NeighborHeightUpdate
    \/ BlockHashResponse
    \/ doBlockhashSync
    \/ doBlockSync
    \/ VerifyLoopReceive
    \/ VerifyLoopGate
    \/ VerifyLoopWait
    \/ VerifyLoopLimit
    \/ VerifyLoopVerify

SpecSync == InitSync /\ [][NextSync]_vars

\* the engine and the synchronizer stopping
InitClose == Constructed(WitnessList, 0, SyncMessages)

NextClose ==
    \/ verifyLoop
    \/ ScheduleLoopExit
    \/ Stop
    \/ StopWait
    \/ Close
    \/ ticks
    \/ ControllerQuit

SpecClose == InitClose /\ [][NextClose]_vars

(***************************************************************************)
(* Claims about the mode of the engine and about the synchronizer.         *)
(***************************************************************************)
\* Start has run: the loops have been launched
StartHasRun == vpc # "new"

ModeIsRight ==
    /\ Mode = "ModeInit" <=> ~StartHasRun
    /\ StartHasRun =>
          /\ Mode = "ModeSync" <=> HeadNumber + 120 < neighborHeight
          /\ Mode = "ModeNormal" <=> HeadNumber + 120 >= neighborHeight

\* C14: Mode() is "ModeInit" exactly as long as Start has not run; after
\* Start it is "ModeSync" iff head.number + 120 < neighborHeight and
\* "ModeNormal" otherwise, a head exactly 120 behind being Normal; once it
\* is not "ModeInit" it never is again.
C14_Mode ==
    /\ []ModeIsRight
    /\ [][Mode # "ModeInit" => Mode' # "ModeInit"]_vars

\* the head has advanced to exactly 120 below the neighbour height while the
\* engine runs or after Stop
C14_Witness ==
    /\ StartHasRun
    /\ HeadNumber > WalLen
    /\ HeadNumber + 120 = neighborHeight
    /\ Mode = "ModeNormal"

\* C16: the request handler is told to stop only after all four controller
\* loops have terminated.
C16_HandlerLast == handlerQuit => running = {}

\* Close has told the handler to stop and has not yet closed the quit
\* channel: the four controllers run
C16_Witness ==
    /\ closePc = "quit"
    /\ handlerQuit
    /\ ~quitCh
    /\ running = Controllers

\* C17: every RequestBlockHash(start, end) of a block-hash sync tick has
\* start <= end, end <= neighborHeight and end <= head.number + 1000; when
\* the start of the range SyncRange returned is above the smaller of its
\* end and neighborHeight the tick sends nothing.
C17_HashRange ==
    requests.tick = "blockhash" =>
       /\ \A i \in 1..Len(requests.sent) :
             /\ requests.sent[i].type = "RequestBlockHash"
             /\ requests.sent[i].start <= requests.sent[i].end
             /\ requests.sent[i].end <= requests.nHeight
             /\ requests.sent[i].end <= requests.head + 1000
       /\ requests.range.start > Min(requests.range.end, requests.nHeight) =>
             requests.sent = <<>>

\* a tick whose window the neighbour height cut short
C17_Witness ==
    /\ requests.tick = "blockhash"
    /\ requests.nHeight < requests.range.end
    /\ requests.sent =
          <<[type |-> "RequestBlockHash", start |-> requests.range.start,
             end |-> requests.nHeight]>>

\* the entries of blockhashSync the window of the latest tick covers
InWindow ==
    { bh \in hashes :
         bh.number \in requests.range.start..Min(requests.range.end, requests.nHeight) }

\* C18: a scheduled block-sync tick sends a SyncBlockRequest only for a hash
\* advertised for a number of the window [start, end], end capped at
\* neighborHeight, whose block is neither in the BlockCache nor in the chain
\* store, to a peer of that hash's peer set, and at most once per hash.
C18_BlockRequests ==
    requests.tick = "block" =>
       /\ \A i \in 1..Len(requests.sent) :
             /\ requests.sent[i].type = SyncBlockRequest
             /\ \E bh \in InWindow :
                   /\ bh.hash = requests.sent[i].hash
                   /\ requests.sent[i].peerID \in bh.peerID
             /\ ~requests.sent[i].found
       /\ \A i, j \in 1..Len(requests.sent) :
             requests.sent[i].hash = requests.sent[j].hash => i = j

\* a tick with two advertised hashes in the window: one block is in the
\* cache and is not asked for, the other is asked from its only peer
C18_Witness ==
    /\ requests.tick = "block"
    /\ Len(requests.sent) = 1
    /\ \E bh \in InWindow :
          /\ bh.hash = requests.sent[1].hash
          /\ bh.peerID = {requests.sent[1].peerID}
    /\ \E bh \in InWindow : bh.hash # requests.sent[1].hash /\ Find(nodes, bh.hash)

(***************************************************************************)
(* Stop under fair scheduling.  The clock of the model stops at the        *)
(* horizon; a ticker the schedule loop waits for fires nevertheless.       *)
(***************************************************************************)
\* lines 232 and 238-240: the ticker of a round fires after the horizon
TickRound ==
    /\ now >= horizon
    /\ spc = "ticker"
    /\ now <= tickedAt
    /\ now' = now + 1
    /\ UNCHANGED <<serviceVars, cacheVars, last, exitSignal, quitGenerateMode, closed,
                   verifyVars, scheduleVars>>

InitStop == Constructed(WitnessList, StopTicks, SyncMessages)

NextStop ==
    \/ Tick
    \/ TickRound
    \/ verifyLoop
    \/ scheduleLoop
    \/ Stop
    \/ StopWait
    \/ Close
    \/ ControllerQuit

\* the clock runs, a goroutine that can take its next step takes it, a call
\* of doVerifyBlock returns, and a select whose exitSignal case is ready
\* again and again takes that case
FairScheduling ==
    /\ WF_vars(Tick \/ TickRound)
    /\ WF_vars(VerifyLoopGate \/ VerifyLoopWait \/ VerifyLoopLimit)
    /\ []<>(vpc # "doVerifyBlock")
    /\ SF_vars(VerifyLoopExit)
    /\ WF_vars(gen \/ ScheduleLoopTicker \/ ScheduleLoopClose)
    /\ SF_vars(ScheduleLoopExit)

SpecStop == InitStop /\ [][NextStop]_vars /\ FairScheduling

\* C15: once Stop has closed exitSignal both loops eventually return,
\* whatever they were doing; Stop returns, and the synchronizer's Close is
\* invoked, only after both loops have returned.
C15_Stop ==
    /\ exitSignal ~> (vpc = "done" /\ spc = "done")
    /\ [](stopPc \in {"close", "returned"} => vpc = "done" /\ spc = "done")
    /\ [](closePc # "none" => vpc = "done" /\ spc = "done")

\* Stop has returned after it was called in the middle of a round, with the
\* verify loop waiting for the round to end
C15_Witness ==
    /\ stopPc = "returned"
    /\ closePc = "stopped"
    /\ vpc = "done"
    /\ spc = "done"
    /\ rounds # <<>>
    /\ ~LastOfRound(num)
    /\ vchan = quitGenerateMode
    /\ vchan # 0

(***************************************************************************)
(* The transaction pool, src/core/new_txpool/tx_pool.go.  Times are in     *)
(* seconds.  The operators work on a record ps of the fields of the pool,  *)
(* [pendingTx, blockList, forkChain, panic].  pendingTx is the set of the  *)
(* entries [key, tx] of the map, blockList the set of the hashes it has a  *)
(* blockTx for.                                                            *)
(***************************************************************************)
\* the capacity of the channel router.FilteredChan returns (spec 5: bounded)
TxChanCap == 1

\* the number of nodes that wait in chLinkedNode at most
MaxLinked == 1

\* number of sub-slots the clock runs for beside the pool
PoolTicks == 1

\* time.Now().Unix()
nTime == SecOfTime(now)

\* the calls of AddLinkedNode: the node linked and the head after it
RecNodes ==
    { [LinkedNode |-> 1, HeadNode |-> 1], [LinkedNode |-> 2, HeadNode |-> 2],
      [LinkedNode |-> 12, HeadNode |-> 2], [LinkedNode |-> 12, HeadNode |-> 12] }

\* spec 4.1 (BlockCache): chain.FindBlock finds the root and the blocks
FindBlock(h) == \E b \in PoolBlocks \cup LateBlocks \cup {LinkedTree} : b.hash = h

PoolBlockOf(h) == CHOOSE b \in PoolBlocks \cup LateBlocks \cup Range(BlockChain) : b.hash = h

\* the hashes a blockTx holds in its txMap: lines 619-627
TxMap(h) == { PoolBlockOf(h).txs[i].id : i \in 1..Len(PoolBlockOf(h).txs) }

Keys(pending) == { e.key : e \in pending }

PoolFields(p, b, f) == [pendingTx |-> p, blockList |-> b, forkChain |-> f, panic |-> FALSE]

PoolCur == PoolFields(pendingTx, blockList, forkChain)

\* lines 396-410
txTimeOut(tx, t) == tx.Expiration <= t \/ t - tx.Time > expiration

\* lines 356-364
existTxInBlock(ps, id, h) == h \in ps.blockList /\ id \in TxMap(h)

\* lines 328-354: t is the time of the block the search started from
RECURSIVE existTxInChain(_, _, _, _)
existTxInChain(ps, id, h, t) ==
    IF existTxInBlock(ps, id, h)
    THEN TRUE
    ELSE IF h \notin ps.blockList
         THEN FALSE
         ELSE LET ph == PoolBlockOf(h).parentHash
              IN  IF ph \in ps.blockList /\ t - PoolBlockOf(ph).time > filterTime
                  THEN FALSE
                  ELSE existTxInChain(ps, id, ph, t)

\* lines 389-394
existTxInPending(ps, id) == id \in Keys(ps.pendingTx)

\* lines 379-387: forkChain.NewHead is nil until the first linked node
addTx(ps, tx) ==
    IF ps.forkChain.NewHead = NoHash
    THEN [ps EXCEPT !.panic = TRUE]
    ELSE IF /\ ~existTxInChain(ps, tx.id, ps.forkChain.NewHead,
                               PoolBlockOf(ps.forkChain.NewHead).time)
            /\ ~existTxInPending(ps, tx.id)
         THEN [ps EXCEPT !.pendingTx = @ \cup {[key |-> tx.id, tx |-> tx]}]
         ELSE ps

\* line 169: tx.VerifySelf() != nil
Adds(tx) == ~tx.VerifySelf

\* lines 153-172: a message from chTx
ReceiveTx(ps, tr, t) ==
    IF ~tr.decodes
    THEN ps
    ELSE IF txTimeOut(tr.tx, t)
         THEN ps
         ELSE IF Adds(tr.tx) THEN addTx(ps, tr.tx) ELSE ps

\* lines 293-307
addBlock(ps, h) == [ps EXCEPT !.blockList = @ \cup {h}]

\* lines 425-427
delTxs(ps, ids) == [ps EXCEPT !.pendingTx = { e \in @ : e.key \notin ids }]

\* delBlockTxInPending leaving pending as it is
delBlockTxInPendingNone(ps, h) == ps

\* lines 429-442
delBlockTxInPending(ps, h) ==
    IF h \notin ps.blockList THEN ps ELSE delTxs(ps, TxMap(h))

\* clearTxPending leaving pending as it is
clearTxPendingNone(ps) == ps

\* lines 444-446
clearTxPending(ps) == [ps EXCEPT !.pendingTx = {}]

\* lines 534-557: h is found on the chain that ends in c
RECURSIVE fundBlockInChain(_, _, _)
fundBlockInChain(ps, h, c) ==
    IF h = c
    THEN TRUE
    ELSE IF c \notin ps.blockList
         THEN FALSE
         ELSE IF PoolBlockOf(c).parentHash = h
              THEN TRUE
              ELSE fundBlockInChain(ps, h, PoolBlockOf(c).parentHash)

\* lines 488-532: [ps, ok, hash]
RECURSIVE fundForkBlockHash(_, _, _)
fundForkBlockHash(ps, n, o) ==
    IF fundBlockInChain(ps, n, o)
    THEN [ps |-> ps, ok |-> TRUE, hash |-> n]
    ELSE IF n \notin ps.blockList /\ ~FindBlock(n)
         THEN [ps |-> ps, ok |-> FALSE, hash |-> NoHash]
         ELSE IF LinkedTree.parentHash = PoolBlockOf(n).parentHash
              THEN [ps |-> addBlock(ps, n), ok |-> FALSE, hash |-> NoHash]
              ELSE fundForkBlockHash(addBlock(ps, n), PoolBlockOf(n).parentHash, o)

\* updateForkChain that takes every head for an extension and does not
\* record it
updateForkChainKeepsHead(ps, headNode) == [ps |-> ps, tFort |-> "NotFork"]

\* lines 464-486: [ps, tFort]
updateForkChain(ps, headNode) ==
    IF \/ ps.forkChain.NewHead = NoHash
       \/ ps.forkChain.NewHead = PoolBlockOf(headNode).parentHash
    THEN [ps |-> [ps EXCEPT !.forkChain.NewHead = headNode], tFort |-> "NotFork"]
    ELSE LET s1 == [ps EXCEPT !.forkChain.OldHead = ps.forkChain.NewHead,
                              !.forkChain.NewHead = headNode]
             r == fundForkBlockHash(s1, headNode, ps.forkChain.NewHead)
         IN  IF r.ok
             THEN [ps |-> [r.ps EXCEPT !.forkChain.ForkBlockHash = r.hash], tFort |-> "Fork"]
             ELSE [ps |-> r.ps, tFort |-> "ForkError"]

\* lines 572-574: pool.addTx(&v) for each v of txs, from the i-th on
RECURSIVE addTxs(_, _, _)
addTxs(ps, txs, i) ==
    IF i > Len(txs) THEN ps ELSE addTxs(addTx(ps, txs[i]), txs, i + 1)

\* lines 572-574: v is one variable for the whole range statement, so every
\* entry stored in it holds &v, and v is the last transaction in the end
RangeTxs(ps, txs) ==
    LET s1 == addTxs(ps, txs, 1)
        stored == Keys(s1.pendingTx) \ Keys(ps.pendingTx)
    IN  [s1 EXCEPT !.pendingTx = { IF e.key \in stored
                                   THEN [key |-> e.key, tx |-> txs[Len(txs)]]
                                   ELSE e : e \in @ }]

\* lines 565-581: the transactions of the old branch go back to pending
RECURSIVE ReplyTxs(_, _, _)
ReplyTxs(ps, o, f) ==
    IF ~FindBlock(o)
    THEN [ps |-> ps, err |-> TRUE]
    ELSE LET s1 == RangeTxs(ps, PoolBlockOf(o).txs)
         IN  IF PoolBlockOf(o).parentHash = f
             THEN [ps |-> s1, err |-> FALSE]
             ELSE ReplyTxs(s1, PoolBlockOf(o).parentHash, f)

\* lines 583-601: the transactions of the new branch leave pending
RECURSIVE DuplicateTxs(_, _, _)
DuplicateTxs(ps, n, f) ==
    IF n \notin ps.blockList
    THEN [ps |-> ps, err |-> TRUE]
    ELSE LET s1 == delTxs(ps, TxMap(n))
         IN  IF PoolBlockOf(n).parentHash = f
             THEN [ps |-> s1, err |-> FALSE]
             ELSE DuplicateTxs(s1, PoolBlockOf(n).parentHash, f)

\* lines 559-604
doChainChange(ps) ==
    LET r == ReplyTxs(ps, ps.forkChain.OldHead, ps.forkChain.ForkBlockHash)
    IN  IF r.err
        THEN r
        ELSE DuplicateTxs(r.ps, ps.forkChain.NewHead, ps.forkChain.ForkBlockHash)

\* lines 174-201: a node from chLinkedNode
ReceiveLinkedNode(ps, bl) ==
    LET r == updateForkChain(addBlock(ps, bl.LinkedNode), bl.HeadNode)
    IN  IF r.tFort = "ForkError"
        THEN clearTxPending(r.ps)
        ELSE IF r.tFort = "Fork"
             THEN LET d == doChainChange(r.ps)
                  IN  IF d.err THEN clearTxPending(d.ps) ELSE d.ps
             ELSE delBlockTxInPending(r.ps, bl.LinkedNode)

\* clearBlock measuring from the time of the head the pool follows
clearBlockByHead(ps) ==
    [ps EXCEPT !.blockList =
        { h \in @ : ps.forkChain.NewHead # NoHash =>
                        ~(PoolBlockOf(h).time < PoolBlockOf(ps.forkChain.NewHead).time - filterTime) }]

\* lines 366-377: ft is taken from the root of the BlockCache
clearBlock(ps) ==
    [ps EXCEPT !.blockList = { h \in @ : ~(PoolBlockOf(h).time < LinkedTree.time - filterTime) }]

\* lines 412-423: the entry of the hash of a value that is timed out goes
clearTimeOutTx(ps, t) ==
    delTxs(ps, { e.tx.id : e \in { x \in ps.pendingTx : txTimeOut(x.tx, t) } })

\* Less with the later transaction first among equal prices
LessLaterFirst(a, b) ==
    \/ a.GasPrice > b.GasPrice
    \/ a.GasPrice = b.GasPrice /\ ~(a.Time < b.Time)

\* lines 86-99
Less(a, b) ==
    \/ a.GasPrice > b.GasPrice
    \/ a.GasPrice = b.GasPrice /\ ~(a.Time > b.Time)

\* sort.Sort: a permutation of the list in which no element comes after
\* one it goes strictly before
Sorted(list) ==
    \A i, j \in 1..Len(list) :
        i < j => ~(Less(list[j], list[i]) /\ ~Less(list[i], list[j]))

\* lines 237-243: the values of the map in an order sort.Sort may leave
PendingLists(ps) ==
    LET n == Cardinality(ps.pendingTx)
        orders == { s \in [1..n -> ps.pendingTx] : \A i, j \in 1..n : s[i] = s[j] => i = j }
    IN  { l \in { [i \in 1..n |-> s[i].tx] : s \in orders } : Sorted(l) }

\* lines 233-251
PendingTxs(ps, maxCnt) ==
    { SubSeq(l, 1, IF Len(l) >= maxCnt THEN maxCnt ELSE Len(l)) : l \in PendingLists(ps) }

NotFound == "NotFound"
FoundPending == "FoundPending"
FoundChain == "FoundChain"

\* lines 253-268
ExistTxs(ps, hash, chainBlock) ==
    IF existTxInPending(ps, hash)
    THEN FoundPending
    ELSE IF existTxInChain(ps, hash, chainBlock.hash, chainBlock.time)
         THEN FoundChain
         ELSE NotFound

\* what a closed channel holds behind the items sent before close: a
\* receive that finds it returns ok = false and leaves it there
ChClosed == [closed |-> TRUE]

IsClosed(ch) == ch # <<>> /\ ch[Len(ch)] = ChClosed

\* the fields of the pool after a step of the loop that ended in ps
PoolInstall(ps) ==
    /\ pendingTx' = ps.pendingTx
    /\ blockList' = ps.blockList
    /\ forkChain' = ps.forkChain
    /\ ppc' = IF ps.panic THEN [at |-> "panic"] ELSE [at |-> "select"]

PoolFrame == UNCHANGED <<cacheVars, last, loopVars, syncVars, ret, published>>

\* lines 228-231: a caller enters AddTx
AddTxCall ==
    /\ \E c \in Callers : \E tr \in published :
          /\ sending[c] = NoTx
          /\ sending' = [sending EXCEPT ![c] = tr]
    /\ UNCHANGED <<chTx, chLinkedNode, pendingTx, blockList, forkChain, ppc>>
    /\ PoolFrame

\* line 229: pool.chTx <- tx goes through when the channel has room; line
\* 230: AddTx returns
AddTxSend ==
    /\ \E c \in Callers :
          /\ sending[c] # NoTx
          /\ ~IsClosed(chTx)
          /\ Len(chTx) < TxChanCap
          /\ chTx' = Append(chTx, sending[c])
          /\ sending' = [sending EXCEPT ![c] = NoTx]
    /\ UNCHANGED <<chLinkedNode, pendingTx, blockList, forkChain, ppc>>
    /\ PoolFrame

\* lines 212-226
AddLinkedNode2 ==
    /\ ~IsClosed(chLinkedNode)
    /\ Len(chLinkedNode) < MaxLinked
    /\ \E r \in RecNodes : chLinkedNode' = Append(chLinkedNode, r)
    /\ UNCHANGED <<chTx, pendingTx, blockList, forkChain, ppc, sending>>
    /\ PoolFrame

\* lines 153-172
LoopTx ==
    /\ ppc.at = "select"
    /\ chTx # <<>>
    /\ Head(chTx) # ChClosed
    /\ chTx' = Tail(chTx)
    /\ PoolInstall(ReceiveTx(PoolCur, Head(chTx), nTime))
    /\ UNCHANGED <<chLinkedNode, sending>>
    /\ PoolFrame

\* line 174: a node is taken from chLinkedNode
LoopLinkedNode ==
    /\ ppc.at = "select"
    /\ chLinkedNode # <<>>
    /\ Head(chLinkedNode) # ChClosed
    /\ chLinkedNode' = Tail(chLinkedNode)
    /\ ppc' = [at |-> "linked", node |-> Head(chLinkedNode)]
    /\ UNCHANGED <<chTx, pendingTx, blockList, forkChain, sending>>
    /\ PoolFrame

\* lines 175-201
LoopLinkedNodeDone ==
    /\ ppc.at = "linked"
    /\ PoolInstall(ReceiveLinkedNode(PoolCur, ppc.node))
    /\ UNCHANGED <<chTx, chLinkedNode, sending>>
    /\ PoolFrame

\* line 203: case <-clearTx.C
LoopClear ==
    /\ ppc.at = "select"
    /\ ppc' = [at |-> "clear"]
    /\ UNCHANGED <<chTx, chLinkedNode, pendingTx, blockList, forkChain, sending>>
    /\ PoolFrame

\* lines 204-205
LoopClearDone ==
    /\ ppc.at = "clear"
    /\ PoolInstall(clearTimeOutTx(clearBlock(PoolCur), nTime))
    /\ UNCHANGED <<chTx, chLinkedNode, sending>>
    /\ PoolFrame

loop == LoopTx \/ LoopLinkedNode \/ LoopLinkedNodeDone \/ LoopClear \/ LoopClearDone

\* the clock beside the pool
PoolTick ==
    /\ now < horizon
    /\ now' = now + 1
    /\ UNCHANGED <<serviceVars, cacheVars, last, exitSignal, quitGenerateMode, closed,
                   verifyVars, scheduleVars>>

InitPool == Constructed(WitnessList, PoolTicks, {})

NextPool == PoolTick \/ AddTxCall \/ AddTxSend \/ AddLinkedNode2 \/ loop

SpecPool == InitPool /\ [][NextPool]_vars

\* the pool with the clock standing still, the network bringing the one
\* transaction the loop admits
InitChain ==
    /\ Built(WitnessList, 0, {})
    /\ PoolNew
    /\ published = { m \in PoolMessages : m.decodes /\ Adds(m.tx) /\ ~txTimeOut(m.tx, PoolTime) }
    /\ Started
    /\ sync = "set"
    /\ SyncFields(Controllers)

NextChain == AddTxCall \/ AddTxSend \/ AddLinkedNode2 \/ loop

SpecChain == InitChain /\ [][NextChain]_vars

\* the largest maxCnt PendingTxs is called with
MaxCnt == 3

\* the entries of a map that holds the transactions txs under their hashes
Entries(txs) == { [key |-> t.id, tx |-> t] : t \in txs }

\* the maps PendingTxs and ExistTxs are called on: each set of
\* transactions under their hashes, and the map a reorg leaves with the two
\* hashes of block 2 holding one transaction
QueryPendings ==
    { Entries(txs) : txs \in SUBSET PoolTxs }
        \cup {{[key |-> 1, tx |-> TxOf(4)], [key |-> 4, tx |-> TxOf(4)]}}

\* a call of PendingTxs: lines 233-251
PendingTxsCall ==
    /\ \E maxCnt \in 0..MaxCnt : \E l \in PendingTxs(PoolCur, maxCnt) :
          ret' = [op |-> "PendingTxs", maxCnt |-> maxCnt, list |-> l]
    /\ UNCHANGED <<chTx, chLinkedNode, pendingTx, blockList, forkChain, ppc, sending, published>>
    /\ UNCHANGED <<cacheVars, last, loopVars, syncVars>>

\* a call of ExistTxs: lines 253-268
ExistTxsCall ==
    /\ \E t \in AllTxs : \E b \in PoolBlocks \cup {LinkedTree} :
          ret' = [op |-> "ExistTxs", hash |-> t.id, block |-> b.hash,
                  r |-> ExistTxs(PoolCur, t.id, b)]
    /\ UNCHANGED <<chTx, chLinkedNode, pendingTx, blockList, forkChain, ppc, sending, published>>
    /\ UNCHANGED <<cacheVars, last, loopVars, syncVars>>

\* the pool with a map of pending transactions and a blockList, the loop
\* at rest
InitQuery ==
    /\ Built(WitnessList, 0, {})
    /\ pendingTx \in QueryPendings
    /\ blockList \in SUBSET ({ b.hash : b \in PoolBlocks } \cup {LinkedTree.hash})
    /\ forkChain = NoFork
    /\ published = {}
    /\ Started
    /\ sync = "set"
    /\ SyncFields(Controllers)

NextQuery == PendingTxsCall \/ ExistTxsCall

SpecQuery == InitQuery /\ [][NextQuery]_vars

\* the blockList of a pool that has run for a while, since its last sweep:
\* blocks of the chain store that were linked while they were in the
\* BlockCache, the root, and the blocks linked above the root
SweepLists ==
    { low \cup {LinkedTree.hash} \cup high :
        low \in {{90}, {90, 91}},
        high \in {{}, {1}, {1, 2}, {1, 12}, {1, 2, 12}, {1, 2, 3}, {1, 2, 3, 12}} }

\* the head of the last notification: a block above the root with none of
\* its children linked
SweepHeads(list) ==
    IF list \cap {1, 2, 3, 12} = {}
    THEN {NoHash}
    ELSE { h \in list \cap {1, 2, 3, 12} :
             \A c \in list \cap {1, 2, 3, 12} : PoolBlockOf(c).parentHash # h }

InitSweep ==
    /\ Built(WitnessList, 0, {})
    /\ pendingTx = {}
    /\ blockList \in SweepLists
    /\ \E h \in SweepHeads(blockList) : forkChain = [NoFork EXCEPT !.NewHead = h]
    /\ published = {}
    /\ Started
    /\ sync = "set"
    /\ SyncFields(Controllers)

NextSweep ==
    AddLinkedNode2 \/ LoopLinkedNode \/ LoopLinkedNodeDone \/ LoopClear \/ LoopClearDone

SpecSweep == InitSweep /\ [][NextSweep]_vars

\* lines 138-142: Stop closes both channels of the pool
PoolStop ==
    /\ ~IsClosed(chTx)
    /\ ~IsClosed(chLinkedNode)
    /\ chTx' = Append(chTx, ChClosed)
    /\ chLinkedNode' = Append(chLinkedNode, ChClosed)
    /\ UNCHANGED <<pendingTx, blockList, forkChain, ppc, sending>>
    /\ PoolFrame

\* lines 154-157 and 175-178: a receive of the select returns ok = false
\* and the loop calls os.Exit(1)
LoopClosed ==
    /\ ppc.at = "select"
    /\ \/ chTx # <<>> /\ Head(chTx) = ChClosed
       \/ chLinkedNode # <<>> /\ Head(chLinkedNode) = ChClosed
    /\ ppc' = [at |-> "os.Exit"]
    /\ UNCHANGED <<chTx, chLinkedNode, pendingTx, blockList, forkChain, sending>>
    /\ PoolFrame

\* the pool of SpecChain with Stop called at any moment
NextPoolStop == AddTxCall \/ AddTxSend \/ AddLinkedNode2 \/ loop \/ PoolStop \/ LoopClosed

SpecPoolStop == InitChain /\ [][NextPoolStop]_vars

(***************************************************************************)
(* Claims about the transaction pool.                                      *)
(***************************************************************************)
\* C19: a transaction whose VerifySelf fails is never in pending.
C19_OnlyVerified == \A e \in pendingTx : e.tx.VerifySelf

\* the loop has taken the transaction whose VerifySelf fails from chTx and
\* holds it in pending, with nothing else
C19_Witness ==
    /\ ppc.at = "select"
    /\ chTx = <<>>
    /\ forkChain.NewHead # NoHash
    /\ pendingTx = { [key |-> tx.id, tx |-> tx] : tx \in { t \in PoolTxs : ~t.VerifySelf } }
    /\ pendingTx # {}

\* C20: a call of AddTx returns in every state of the pool: the send of a
\* caller that is in AddTx can go through.
C20_NonBlocking == \A c \in Callers : sending[c] # NoTx => Len(chTx) < TxChanCap

\* a caller is in AddTx, the channel is full and the loop is busy with a
\* linked node
C20_Witness ==
    /\ \E c \in Callers : sending[c] # NoTx
    /\ Len(chTx) = TxChanCap
    /\ ppc.at = "linked"

\* C21: every transaction in pending is at most expiration seconds old and
\* has not expired.
C21_Fresh ==
    \A e \in pendingTx : nTime - e.tx.Time <= expiration /\ e.tx.Expiration > nTime

\* the head went from block 2 to block 12 and the loop, done with the node,
\* holds the old transaction of block 2 in pending
C21_Witness ==
    /\ ppc.at = "select"
    /\ forkChain.OldHead = 2
    /\ forkChain.NewHead = 12
    /\ forkChain.ForkBlockHash = 1
    /\ \E e \in pendingTx : e.key = 4 /\ txTimeOut(e.tx, nTime)

\* the hashes of the blocks under h, down to the genesis block
RECURSIVE AncestorsOf(_)
AncestorsOf(h) ==
    LET p == PoolBlockOf(h).parentHash
    IN  IF p = NoHash THEN {} ELSE {p} \cup AncestorsOf(p)

\* the canonical branch as the pool knows it: the recorded new head and
\* those of its ancestors blockList tracks
CanonicalBranch ==
    IF forkChain.NewHead = NoHash
    THEN {}
    ELSE {forkChain.NewHead} \cup (AncestorsOf(forkChain.NewHead) \cap blockList)

\* C22: when the loop is done with a linked node or a transaction, no
\* transaction of pending is in a block of the canonical branch whose time
\* is within filterTime.
C22_NotIncluded ==
    ppc.at = "select" =>
        \A e \in pendingTx : \A h \in CanonicalBranch :
            nTime - PoolBlockOf(h).time <= filterTime => e.key \notin TxMap(h)

\* the head went from block 12 back to block 2: the transaction of block
\* 12 is pending again and those of block 2 are not
C22_Witness ==
    /\ ppc.at = "select"
    /\ forkChain = [NewHead |-> 2, OldHead |-> 12, ForkBlockHash |-> 1]
    /\ Keys(pendingTx) = TxMap(12)
    /\ TxMap(2) # {}

\* the deepest block that is n or under n and is o or under o
RECURSIVE ForkPoint(_, _)
ForkPoint(n, o) ==
    IF n \in {o} \cup AncestorsOf(o) THEN n ELSE ForkPoint(PoolBlockOf(n).parentHash, o)

\* the blocks from h down to f, f left out
RECURSIVE BranchAbove(_, _)
BranchAbove(h, f) ==
    IF h = f THEN {} ELSE {h} \cup BranchAbove(PoolBlockOf(h).parentHash, f)

\* the transactions of the blocks hs, as entries of pending
EntriesOf(hs) ==
    UNION { { [key |-> PoolBlockOf(h).txs[i].id, tx |-> PoolBlockOf(h).txs[i]] :
              i \in 1..Len(PoolBlockOf(h).txs) } : h \in hs }

\* the loop is done with a node whose head n is not a child of the recorded
\* head o, and updateForkChain found the fork point
ReorgDone(n, o) ==
    /\ ppc.at = "linked"
    /\ ppc'.at = "select"
    /\ n = ppc.node.HeadNode
    /\ o = forkChain.NewHead
    /\ o # NoHash
    /\ n # o
    /\ PoolBlockOf(n).parentHash # o
    /\ updateForkChain(addBlock(PoolCur, ppc.node.LinkedNode), n).tFort = "Fork"

\* C23: a reorg from head o to head n with fork point f leaves in pending
\* what was pending and the transactions of the blocks from o down to f, f
\* left out, but for the transactions of the blocks from n down to f.
C23_Reorg ==
    [][\A n, o \in { b.hash : b \in PoolBlocks } \cup {NoHash} :
          ReorgDone(n, o) =>
              LET f == ForkPoint(n, o)
                  new == UNION { TxMap(h) : h \in BranchAbove(n, f) }
              IN  pendingTx' = { e \in pendingTx \cup EntriesOf(BranchAbove(o, f)) :
                                   e.key \notin new }]_vars

\* the blocks 1 and 2 were linked one after the other, then the head went
\* to block 12: the key of the first transaction of block 2 is pending, the
\* entry holds the second one
C23_Witness ==
    /\ ppc.at = "select"
    /\ forkChain = [NewHead |-> 12, OldHead |-> 2, ForkBlockHash |-> 1]
    /\ blockList = {0, 1, 2, 12}
    /\ \E e \in pendingTx : e.key = 1 /\ e.tx = TxOf(4)

\* the entries of pending whose key is not among ids are in pending after
\* the step
Stay(ids) == \A e \in pendingTx : e.key \notin ids => e \in pendingTx'

\* C24: when the loop is done with a node for which updateForkChain
\* returned ForkError, pending is empty; on a straight extension the
\* transactions that are not in the linked block stay, and on a reorg that
\* was replayed those that are not in a block of the new branch stay.
C24_Flush ==
    [][ppc.at = "linked" /\ ppc'.at = "select" =>
          LET n == ppc.node.HeadNode
              o == forkChain.NewHead
              r == updateForkChain(addBlock(PoolCur, ppc.node.LinkedNode), n)
          IN  /\ r.tFort = "ForkError" => pendingTx' = {}
              /\ o = NoHash \/ PoolBlockOf(n).parentHash = o => Stay(TxMap(ppc.node.LinkedNode))
              /\ r.tFort = "Fork" /\ ~doChainChange(r.ps).err =>
                     Stay(UNION { TxMap(h) : h \in BranchAbove(n, ForkPoint(n, o)) })]_vars

\* block 12 was linked when the head was block 2, which the pool has no
\* blockTx of, and then became the head: no fork point was found and pending
\* is empty
C24_Witness ==
    /\ ppc.at = "select"
    /\ forkChain = [NewHead |-> 12, OldHead |-> 2, ForkBlockHash |-> NoHash]
    /\ 2 \notin blockList
    /\ pendingTx = {}

\* a goes strictly before b: the higher price, then the earlier time
RanksBefore(a, b) ==
    \/ a.GasPrice > b.GasPrice
    \/ a.GasPrice = b.GasPrice /\ a.Time < b.Time

\* list is made of the values of distinct entries of pending, and no entry
\* left out goes strictly before one of the list
PrefixOfPending(list) ==
    \E f \in [1..Len(list) -> pendingTx] :
        /\ \A i, j \in 1..Len(list) : f[i] = f[j] => i = j
        /\ \A i \in 1..Len(list) : list[i] = f[i].tx
        /\ \A e \in pendingTx \ { f[i] : i \in 1..Len(list) } :
               \A i \in 1..Len(list) : ~RanksBefore(e.tx, list[i])

\* C25: PendingTxs(maxCnt) returns min(|pending|, maxCnt) transactions of
\* pending, by price descending and time ascending, and none it leaves out
\* ranks before one it returns.
C25_PendingTxs ==
    ret.op = "PendingTxs" =>
        /\ Len(ret.list) = Min(Cardinality(pendingTx), ret.maxCnt)
        /\ \A i, j \in 1..Len(ret.list) : i < j => ~RanksBefore(ret.list[j], ret.list[i])
        /\ PrefixOfPending(ret.list)

\* PendingTxs(2) was called on four transactions, two prices with two times
\* each, and returned two of them
C25_Witness ==
    /\ ret.op = "PendingTxs"
    /\ ret.maxCnt = 2
    /\ Len(ret.list) = 2
    /\ Cardinality(pendingTx) = 4
    /\ \E a, b \in pendingTx : a.tx.GasPrice = b.tx.GasPrice /\ a.tx.Time < b.tx.Time
    /\ \E a, b \in pendingTx : a.tx.GasPrice < b.tx.GasPrice

\* the ancestors of block h that are reached from it through blockList
\* alone: the parent if blockList has it, then its parent, and so on
RECURSIVE TrackedAncestors(_)
TrackedAncestors(h) ==
    LET p == PoolBlockOf(h).parentHash
    IN  IF p \notin blockList THEN {} ELSE {p} \cup TrackedAncestors(p)

\* the transaction is in the block, in an ancestor blockList leads to whose
\* time is within filterTime of the time of the block, or in the chain store
OnChainOf(hash, h) ==
    \/ hash \in TxMap(h)
    \/ \E a \in TrackedAncestors(h) :
          /\ PoolBlockOf(h).time - PoolBlockOf(a).time <= filterTime
          /\ hash \in TxMap(a)
    \/ \E i \in 1..Len(BlockChain) : hash \in TxMap(BlockChain[i].hash)

\* C26: ExistTxs returns FoundPending for a transaction of pending, else
\* FoundChain for one that is on the chain of the block, else NotFound.
C26_ExistTxs ==
    ret.op = "ExistTxs" =>
        ret.r = IF ret.hash \in Keys(pendingTx)
                THEN FoundPending
                ELSE IF OnChainOf(ret.hash, ret.block) THEN FoundChain ELSE NotFound

\* ExistTxs was called for the transaction the chain store holds and the
\* head block 2, the pool tracking the whole branch of it: NotFound
C26_Witness ==
    /\ ret = [op |-> "ExistTxs", hash |-> 5, block |-> 2, r |-> NotFound]
    /\ {0, 1, 2} \subseteq blockList
    /\ \E i \in 1..Len(BlockChain) : 5 \in TxMap(BlockChain[i].hash)

(***************************************************************************)
(* The wire format of transactions: core/tx/tx.pb.go, generated by         *)
(* protoc-gen-gogo (src/unnamed/part_002).  Byte slices and strings are    *)
(* sequences of 0..255; a nil slice and an empty one are both <<>>; a      *)
(* pointer to a message is a sequence of at most one message.  A 64-bit    *)
(* word is the sequence of its ten 7-bit groups, lowest first, the tenth   *)
(* being bit 63 alone.                                                     *)
(***************************************************************************)
RECURSIVE Pow128(_)
Pow128(i) == IF i = 0 THEN 1 ELSE 128 * Pow128(i - 1)

ZeroWord == [i \in 1..10 |-> 0]

\* uint64(v) of an int64 v of the model (|v| below 2^28): two's complement
uint64(v) ==
    IF v >= 0
        THEN [i \in 1..10 |-> IF i <= 4 THEN (v \div Pow128(i - 1)) % 128 ELSE 0]
        ELSE LET k == (-v) - 1
             IN  [i \in 1..10 |-> IF i = 10 THEN 1
                                  ELSE IF i <= 4 THEN 127 - ((k \div Pow128(i - 1)) % 128)
                                  ELSE 127]

RECURSIVE ValueFrom(_, _)
ValueFrom(x, i) ==
    IF i > 10 THEN 0
    ELSE (IF x[i] = 0 THEN 0 ELSE x[i] * Pow128(i - 1)) + ValueFrom(x, i + 1)

\* int64(x), int(x) of a 64-bit word
int64(x) ==
    IF x[10] = 0 THEN ValueFrom(x, 1)
    ELSE -(ValueFrom([i \in 1..10 |-> IF i = 10 THEN 0 ELSE 127 - x[i]], 1) + 1)

\* x >> 7
Shr7(x) == [i \in 1..10 |-> IF i < 10 THEN x[i + 1] ELSE 0]

\* sovTx that counts one byte for every value
sovTxOneByte(x) == 1

\* lines 765-774
RECURSIVE sovTx(_)
sovTx(x) == IF Shr7(x) = ZeroWord THEN 1 ELSE 1 + sovTx(Shr7(x))

\* lines 631-639: the bytes encodeVarintTx writes from offset on
RECURSIVE encodeVarintTx(_)
encodeVarintTx(v) ==
    IF Shr7(v) # ZeroWord
        THEN <<v[1] + 128>> \o encodeVarintTx(Shr7(v))
        ELSE <<v[1]>>

ErrIntOverflowTx == "proto: integer overflow"
ErrInvalidLengthTx == "proto: negative length found during unmarshaling"
ErrUnexpectedEOF == "unexpected EOF"
ErrWireType == "proto: wrong wireType"
ErrEndGroup == "proto: wiretype end group for non-group"
ErrIllegalTag == "proto: illegal tag"

\* dAtA[from:to]
Slice(dAtA, from, to) == SubSeq(dAtA, from + 1, to)

RECURSIVE Concat(_)
Concat(ss) == IF ss = <<>> THEN <<>> ELSE Head(ss) \o Concat(Tail(ss))

RECURSIVE SumOf(_)
SumOf(ns) == IF ns = <<>> THEN 0 ELSE Head(ns) + SumOf(Tail(ns))

\* the loop that reads a varint (lines 922-935 and its copies): group k of
\* the word is read at iNdEx; an eleventh byte is shift >= 64
RECURSIVE VarintFrom(_, _, _, _)
VarintFrom(dAtA, iNdEx, k, acc) ==
    IF k > 10 THEN [err |-> ErrIntOverflowTx, v |-> acc, iNdEx |-> iNdEx]
    ELSE IF iNdEx >= Len(dAtA) THEN [err |-> ErrUnexpectedEOF, v |-> acc, iNdEx |-> iNdEx]
    ELSE LET b == dAtA[iNdEx + 1]
             v == [acc EXCEPT ![k] = IF k = 10 THEN (b % 128) % 2 ELSE b % 128]
         IN  IF b < 128
                 THEN [err |-> errNil, v |-> v, iNdEx |-> iNdEx + 1]
                 ELSE VarintFrom(dAtA, iNdEx + 1, k + 1, v)

Varint(dAtA, iNdEx) == VarintFrom(dAtA, iNdEx, 1, ZeroWord)

\* a length read as r and the end of what it delimits (lines 1025-1046
\* and copies)
DelimitedBy(dAtA, iNdEx, r) ==
    IF r.err # errNil THEN [err |-> r.err, iNdEx |-> iNdEx, postIndex |-> iNdEx]
    ELSE IF int64(r.v) < 0
        THEN [err |-> ErrInvalidLengthTx, iNdEx |-> iNdEx, postIndex |-> iNdEx]
    ELSE IF r.iNdEx + int64(r.v) > Len(dAtA)
        THEN [err |-> ErrUnexpectedEOF, iNdEx |-> iNdEx, postIndex |-> iNdEx]
    ELSE [err |-> errNil, iNdEx |-> r.iNdEx, postIndex |-> r.iNdEx + int64(r.v)]

Delimited(dAtA, iNdEx) == DelimitedBy(dAtA, iNdEx, Varint(dAtA, iNdEx))

RECURSIVE skipTx(_)
RECURSIVE SkipGroup(_, _)

\* lines 1570-1583 and 1587-1607: the varint r after the tag is the value
\* of the field, or the length of its bytes
SkipVarint(r) ==
    IF r.err # errNil THEN [n |-> 0, err |-> r.err] ELSE [n |-> r.iNdEx, err |-> errNil]

SkipBytes(r) ==
    IF r.err # errNil THEN [n |-> 0, err |-> r.err]
    ELSE IF int64(r.v) < 0 THEN [n |-> 0, err |-> ErrInvalidLengthTx]
    ELSE [n |-> r.iNdEx + int64(r.v), err |-> errNil]

\* lines 1568-1644: the switch on the wire type of the tag w
SkipField(dAtA, w) ==
    IF w.err # errNil THEN [n |-> 0, err |-> w.err]
    ELSE CASE w.v[1] % 8 = 0 -> SkipVarint(Varint(dAtA, w.iNdEx))
           [] w.v[1] % 8 = 1 -> [n |-> w.iNdEx + 8, err |-> errNil]
           [] w.v[1] % 8 = 2 -> SkipBytes(Varint(dAtA, w.iNdEx))
           [] w.v[1] % 8 = 3 -> SkipGroup(dAtA, w.iNdEx)
           [] w.v[1] % 8 = 4 -> [n |-> w.iNdEx, err |-> errNil]
           [] w.v[1] % 8 = 5 -> [n |-> w.iNdEx + 4, err |-> errNil]
           [] OTHER -> [n |-> 0, err |-> "proto: illegal wireType"]

\* lines 1549-1647: the number of bytes of the field dAtA starts with
skipTx(dAtA) == SkipField(dAtA, Varint(dAtA, 0))

\* lines 1630-1634: the field inside a group has been skipped
SkipNext(dAtA, start, next) ==
    IF next.err # errNil THEN [n |-> 0, err |-> next.err]
    ELSE IF start + next.n > Len(dAtA) THEN [n |-> 0, err |-> ErrUnexpectedEOF]
    ELSE SkipGroup(dAtA, start + next.n)

\* lines 1610-1629: the tag w inside a group ends it or starts a field
SkipInner(dAtA, start, w) ==
    IF w.err # errNil THEN [n |-> 0, err |-> w.err]
    ELSE IF w.v[1] % 8 = 4 THEN [n |-> w.iNdEx, err |-> errNil]
    ELSE SkipNext(dAtA, start, skipTx(Slice(dAtA, start, Len(dAtA))))

\* lines 1609-1636: the fields of a group up to its end
SkipGroup(dAtA, start) == SkipInner(dAtA, start, Varint(dAtA, start))

\* lines 936-943: the field number and wire type of the tag read as w
TagOf(iNdEx, w) ==
    IF w.err # errNil THEN [err |-> w.err, fieldNum |-> 0, wireType |-> 0, iNdEx |-> iNdEx]
    ELSE [err |-> IF w.v[1] % 8 = 4 THEN ErrEndGroup
                  ELSE IF ValueFrom(w.v, 1) \div 8 <= 0 THEN ErrIllegalTag
                  ELSE errNil,
          fieldNum |-> ValueFrom(w.v, 1) \div 8, wireType |-> w.v[1] % 8,
          iNdEx |-> w.iNdEx]

\* the tag at iNdEx: lines 920-943
Tag(dAtA, iNdEx) == TagOf(iNdEx, Varint(dAtA, iNdEx))

\* lines 1147-1158: skipTx returned s for the field at preIndex
UnknownOf(dAtA, preIndex, s) ==
    IF s.err # errNil THEN [err |-> s.err, bytes |-> <<>>, iNdEx |-> preIndex]
    ELSE IF s.n < 0 THEN [err |-> ErrInvalidLengthTx, bytes |-> <<>>, iNdEx |-> preIndex]
    ELSE IF preIndex + s.n > Len(dAtA)
        THEN [err |-> ErrUnexpectedEOF, bytes |-> <<>>, iNdEx |-> preIndex]
    ELSE [err |-> errNil, bytes |-> Slice(dAtA, preIndex, preIndex + s.n),
          iNdEx |-> preIndex + s.n]

\* the default case of the switch (lines 1145-1158): the field at preIndex
\* is one the message does not know
Unknown(dAtA, preIndex) == UnknownOf(dAtA, preIndex, skipTx(Slice(dAtA, preIndex, Len(dAtA))))

\* a field of wire type 2 as MarshalTo writes it: the tag, the length the
\* caller computed, the bytes
Bytes(tag, l, body) == <<tag>> \o encodeVarintTx(uint64(l)) \o body

\* ActionRaw{}
NewActionRaw == [Contract |-> <<>>, ActionName |-> <<>>, Data |-> <<>>, XXX_unrecognized |-> <<>>]

\* lines 640-659
ActionRawSize(m) ==
    (IF Len(m.Contract) > 0 THEN 1 + Len(m.Contract) + sovTx(uint64(Len(m.Contract))) ELSE 0)
    + (IF Len(m.ActionName) > 0 THEN 1 + Len(m.ActionName) + sovTx(uint64(Len(m.ActionName))) ELSE 0)
    + (IF Len(m.Data) > 0 THEN 1 + Len(m.Data) + sovTx(uint64(Len(m.Data))) ELSE 0)
    + Len(m.XXX_unrecognized)

\* lines 396-423
ActionRawMarshalTo(m) ==
    (IF Len(m.Contract) > 0 THEN Bytes(10, Len(m.Contract), m.Contract) ELSE <<>>)
    \o (IF Len(m.ActionName) > 0 THEN Bytes(18, Len(m.ActionName), m.ActionName) ELSE <<>>)
    \o (IF Len(m.Data) > 0 THEN Bytes(26, Len(m.Data), m.Data) ELSE <<>>)
    \o m.XXX_unrecognized

RECURSIVE ActionRawFrom(_, _, _)

\* the bytes d delimits are those of the string field fieldNum
ActionRawString(m, dAtA, fieldNum, d) ==
    IF d.err # errNil THEN [err |-> d.err, m |-> m]
    ELSE ActionRawFrom(
             CASE fieldNum = 1 -> [m EXCEPT !.Contract = Slice(dAtA, d.iNdEx, d.postIndex)]
               [] fieldNum = 2 -> [m EXCEPT !.ActionName = Slice(dAtA, d.iNdEx, d.postIndex)]
               [] OTHER -> [m EXCEPT !.Data = Slice(dAtA, d.iNdEx, d.postIndex)],
             dAtA, d.postIndex)

ActionRawUnknown(m, dAtA, u) ==
    IF u.err # errNil THEN [err |-> u.err, m |-> m]
    ELSE ActionRawFrom([m EXCEPT !.XXX_unrecognized = @ \o u.bytes], dAtA, u.iNdEx)

\* the switch on the field number of the tag t
ActionRawField(m, dAtA, iNdEx, t) ==
    IF t.err # errNil THEN [err |-> t.err, m |-> m]
    ELSE IF t.fieldNum \in 1..3
        THEN IF t.wireType # 2 THEN [err |-> ErrWireType, m |-> m]
             ELSE ActionRawString(m, dAtA, t.fieldNum, Delimited(dAtA, t.iNdEx))
        ELSE ActionRawUnknown(m, dAtA, Unknown(dAtA, iNdEx))

\* lines 778-915: the loop of ActionRaw.Unmarshal from iNdEx on
ActionRawFrom(m, dAtA, iNdEx) ==
    IF iNdEx > Len(dAtA) THEN [err |-> ErrUnexpectedEOF, m |-> m]
    ELSE IF iNdEx = Len(dAtA) THEN [err |-> errNil, m |-> m]
    ELSE ActionRawField(m, dAtA, iNdEx, Tag(dAtA, iNdEx))

ActionRawUnmarshal(m, dAtA) == ActionRawFrom(m, dAtA, 0)

\* crypto.SignatureRaw{}: algorithm = 1 (varint), sig = 2, pubKey = 3
NewSignatureRaw == [Algorithm |-> 0, Sig |-> <<>>, PubKey |-> <<>>, XXX_unrecognized |-> <<>>]

SignatureRawSize(m) ==
    (IF m.Algorithm # 0 THEN 1 + sovTx(uint64(m.Algorithm)) ELSE 0)
    + (IF Len(m.Sig) > 0 THEN 1 + Len(m.Sig) + sovTx(uint64(Len(m.Sig))) ELSE 0)
    + (IF Len(m.PubKey) > 0 THEN 1 + Len(m.PubKey) + sovTx(uint64(Len(m.PubKey))) ELSE 0)
    + Len(m.XXX_unrecognized)

SignatureRawMarshalTo(m) ==
    (IF m.Algorithm # 0 THEN <<8>> \o encodeVarintTx(uint64(m.Algorithm)) ELSE <<>>)
    \o (IF Len(m.Sig) > 0 THEN Bytes(18, Len(m.Sig), m.Sig) ELSE <<>>)
    \o (IF Len(m.PubKey) > 0 THEN Bytes(26, Len(m.PubKey), m.PubKey) ELSE <<>>)
    \o m.XXX_unrecognized

RECURSIVE SignatureRawFrom(_, _, _)

SignatureRawAlgorithm(m, dAtA, r) ==
    IF r.err # errNil THEN [err |-> r.err, m |-> m]
    ELSE SignatureRawFrom([m EXCEPT !.Algorithm = int64(r.v)], dAtA, r.iNdEx)

SignatureRawBytes(m, dAtA, fieldNum, d) ==
    IF d.err # errNil THEN [err |-> d.err, m |-> m]
    ELSE SignatureRawFrom(
             IF fieldNum = 2 THEN [m EXCEPT !.Sig = Slice(dAtA, d.iNdEx, d.postIndex)]
                             ELSE [m EXCEPT !.PubKey = Slice(dAtA, d.iNdEx, d.postIndex)],
             dAtA, d.postIndex)

SignatureRawUnknown(m, dAtA, u) ==
    IF u.err # errNil THEN [err |-> u.err, m |-> m]
    ELSE SignatureRawFrom([m EXCEPT !.XXX_unrecognized = @ \o u.bytes], dAtA, u.iNdEx)

SignatureRawField(m, dAtA, iNdEx, t) ==
    IF t.err # errNil THEN [err |-> t.err, m |-> m]
    ELSE IF t.fieldNum = 1
        THEN IF t.wireType # 0 THEN [err |-> ErrWireType, m |-> m]
             ELSE SignatureRawAlgorithm(m, dAtA, Varint(dAtA, t.iNdEx))
    ELSE IF t.fieldNum \in 2..3
        THEN IF t.wireType # 2 THEN [err |-> ErrWireType, m |-> m]
             ELSE SignatureRawBytes(m, dAtA, t.fieldNum, Delimited(dAtA, t.iNdEx))
    ELSE SignatureRawUnknown(m, dAtA, Unknown(dAtA, iNdEx))

SignatureRawFrom(m, dAtA, iNdEx) ==
    IF iNdEx > Len(dAtA) THEN [err |-> ErrUnexpectedEOF, m |-> m]
    ELSE IF iNdEx = Len(dAtA) THEN [err |-> errNil, m |-> m]
    ELSE SignatureRawField(m, dAtA, iNdEx, Tag(dAtA, iNdEx))

SignatureRawUnmarshal(m, dAtA) == SignatureRawFrom(m, dAtA, 0)

\* TxRaw{}
NewTxRaw ==
    [Time |-> 0, Expiration |-> 0, GasLimit |-> 0, GasPrice |-> 0,
     Actions |-> <<>>, Signers |-> <<>>, Signs |-> <<>>, Publisher |-> <<>>,
     XXX_unrecognized |-> <<>>]

\* n += 1 + l + sovTx(uint64(l))
SizeOfBytes(l) == 1 + l + sovTx(uint64(l))

\* lines 661-702
TxRawSize(m) ==
    (IF m.Time # 0 THEN 1 + sovTx(uint64(m.Time)) ELSE 0)
    + (IF m.Expiration # 0 THEN 1 + sovTx(uint64(m.Expiration)) ELSE 0)
    + (IF m.GasLimit # 0 THEN 1 + sovTx(uint64(m.GasLimit)) ELSE 0)
    + (IF m.GasPrice # 0 THEN 1 + sovTx(uint64(m.GasPrice)) ELSE 0)
    + SumOf([i \in 1..Len(m.Actions) |-> SizeOfBytes(ActionRawSize(m.Actions[i]))])
    + SumOf([i \in 1..Len(m.Signers) |-> SizeOfBytes(Len(m.Signers[i]))])
    + SumOf([i \in 1..Len(m.Signs) |-> SizeOfBytes(SignatureRawSize(m.Signs[i]))])
    + SumOf([i \in 1..Len(m.Publisher) |-> SizeOfBytes(SignatureRawSize(m.Publisher[i]))])
    + Len(m.XXX_unrecognized)

\* lines 435-506: the bytes MarshalTo writes from dAtA[0] on
TxRawMarshalTo(m) ==
    (IF m.Time # 0 THEN <<8>> \o encodeVarintTx(uint64(m.Time)) ELSE <<>>)
    \o (IF m.Expiration # 0 THEN <<16>> \o encodeVarintTx(uint64(m.Expiration)) ELSE <<>>)
    \o (IF m.GasLimit # 0 THEN <<24>> \o encodeVarintTx(uint64(m.GasLimit)) ELSE <<>>)
    \o (IF m.GasPrice # 0 THEN <<32>> \o encodeVarintTx(uint64(m.GasPrice)) ELSE <<>>)
    \o Concat([i \in 1..Len(m.Actions) |->
                  Bytes(42, ActionRawSize(m.Actions[i]), ActionRawMarshalTo(m.Actions[i]))])
    \o Concat([i \in 1..Len(m.Signers) |->
                  Bytes(50, Len(m.Signers[i]), m.Signers[i])])
    \o Concat([i \in 1..Len(m.Signs) |->
                  Bytes(58, SignatureRawSize(m.Signs[i]), SignatureRawMarshalTo(m.Signs[i]))])
    \o Concat([i \in 1..Len(m.Publisher) |->
                  Bytes(66, SignatureRawSize(m.Publisher[i]),
                        SignatureRawMarshalTo(m.Publisher[i]))])
    \o m.XXX_unrecognized

\* MarshalTo has written, or tried to write, the bytes written to a slice of
\* size bytes: a write past its end panics
Filled(size, written) ==
    IF Len(written) > size
        THEN [panic |-> TRUE, size |-> size, n |-> size, dAtA |-> SubSeq(written, 1, size)]
        ELSE [panic |-> FALSE, size |-> size, n |-> Len(written), dAtA |-> written]

\* lines 425-433: Marshal makes a slice of Size bytes and has MarshalTo fill it
TxRawMarshal(m) == Filled(TxRawSize(m), TxRawMarshalTo(m))

RECURSIVE TxRawFrom(_, _, _)

\* lines 945-1020: the varint r is the value of field fieldNum
TxRawVarint(m, dAtA, fieldNum, r) ==
    IF r.err # errNil THEN [err |-> r.err, m |-> m]
    ELSE TxRawFrom(
             CASE fieldNum = 1 -> [m EXCEPT !.Time = int64(r.v)]
               [] fieldNum = 2 -> [m EXCEPT !.Expiration = int64(r.v)]
               [] fieldNum = 3 -> [m EXCEPT !.GasLimit = int64(r.v)]
               [] OTHER -> [m EXCEPT !.GasPrice = int64(r.v)],
             dAtA, r.iNdEx)

\* lines 1047-1051: the Unmarshal of the ActionRaw appended returned a
TxRawAction(m, dAtA, postIndex, a) ==
    IF a.err # errNil THEN [err |-> a.err, m |-> [m EXCEPT !.Actions = Append(@, a.m)]]
    ELSE TxRawFrom([m EXCEPT !.Actions = Append(@, a.m)], dAtA, postIndex)

\* lines 1107-1111: the Unmarshal of the SignatureRaw appended returned g
TxRawSign(m, dAtA, postIndex, g) ==
    IF g.err # errNil THEN [err |-> g.err, m |-> [m EXCEPT !.Signs = Append(@, g.m)]]
    ELSE TxRawFrom([m EXCEPT !.Signs = Append(@, g.m)], dAtA, postIndex)

\* lines 1138-1144: the Unmarshal of m.Publisher returned g
TxRawPublisher(m, dAtA, postIndex, g) ==
    IF g.err # errNil THEN [err |-> g.err, m |-> [m EXCEPT !.Publisher = <<g.m>>]]
    ELSE TxRawFrom([m EXCEPT !.Publisher = <<g.m>>], dAtA, postIndex)

\* lines 1021-1144: the bytes s, ending at postIndex, are those of field
\* fieldNum
TxRawBytes(m, dAtA, fieldNum, s, postIndex) ==
    CASE fieldNum = 5 ->
            TxRawAction(m, dAtA, postIndex, ActionRawUnmarshal(NewActionRaw, s))
      [] fieldNum = 6 -> TxRawFrom([m EXCEPT !.Signers = Append(@, s)], dAtA, postIndex)
      [] fieldNum = 7 ->
            TxRawSign(m, dAtA, postIndex, SignatureRawUnmarshal(NewSignatureRaw, s))
      [] OTHER ->
            TxRawPublisher(m, dAtA, postIndex,
                SignatureRawUnmarshal(IF m.Publisher = <<>> THEN NewSignatureRaw
                                      ELSE m.Publisher[1], s))

TxRawDelimited(m, dAtA, fieldNum, d) ==
    IF d.err # errNil THEN [err |-> d.err, m |-> m]
    ELSE TxRawBytes(m, dAtA, fieldNum, Slice(dAtA, d.iNdEx, d.postIndex), d.postIndex)

TxRawUnknown(m, dAtA, u) ==
    IF u.err # errNil THEN [err |-> u.err, m |-> m]
    ELSE TxRawFrom([m EXCEPT !.XXX_unrecognized = @ \o u.bytes], dAtA, u.iNdEx)

\* lines 944-1159: the switch on the field number of the tag t
TxRawField(m, dAtA, iNdEx, t) ==
    IF t.err # errNil THEN [err |-> t.err, m |-> m]
    ELSE IF t.fieldNum \in 1..4
        THEN IF t.wireType # 0 THEN [err |-> ErrWireType, m |-> m]
             ELSE TxRawVarint(m, dAtA, t.fieldNum, Varint(dAtA, t.iNdEx))
    ELSE IF t.fieldNum \in 5..8
        THEN IF t.wireType # 2 THEN [err |-> ErrWireType, m |-> m]
             ELSE TxRawDelimited(m, dAtA, t.fieldNum, Delimited(dAtA, t.iNdEx))
    ELSE TxRawUnknown(m, dAtA, Unknown(dAtA, iNdEx))

\* lines 916-1166: the loop of TxRaw.Unmarshal from iNdEx on
TxRawFrom(m, dAtA, iNdEx) ==
    IF iNdEx > Len(dAtA) THEN [err |-> ErrUnexpectedEOF, m |-> m]
    ELSE IF iNdEx = Len(dAtA) THEN [err |-> errNil, m |-> m]
    ELSE TxRawField(m, dAtA, iNdEx, Tag(dAtA, iNdEx))

TxRawUnmarshal(m, dAtA) == TxRawFrom(m, dAtA, 0)

\* the number of calls of Marshal and Unmarshal made on one transaction
MaxCalls == 3

ActionRaws ==
    <<NewActionRaw,
      [NewActionRaw EXCEPT !.Contract = <<99>>, !.Data = <<1, 2>>],
      [NewActionRaw EXCEPT !.ActionName = <<97>>, !.XXX_unrecognized = <<32, 5>>]>>

SignatureRaws ==
    <<NewSignatureRaw, [Algorithm |-> 1, Sig |-> <<7>>, PubKey |-> <<8, 9>>, XXX_unrecognized |-> <<>>]>>

\* fields no message of tx.proto has: field 9 as a varint, field 10 as
\* bytes, field 9 as a group holding a varint
UnknownFields == {<<72, 5>>, <<82, 1, 170>>, <<75, 72, 5, 76>>}

\* the transactions encoded: times of one, two and ten bytes, empty and
\* non-empty nested messages, a signer of no bytes, a nil and an empty
\* publisher, and a field an earlier Unmarshal did not know
TxRaws ==
    [Time : {0, 300, -1}, Expiration : {60}, GasLimit : {1}, GasPrice : {0, 128},
     Actions : {<<>>, <<ActionRaws[2]>>, <<ActionRaws[1], ActionRaws[3]>>},
     Signers : {<<>>, << <<>> >>, << <<5>>, <<6, 7>> >>},
     Signs : {<<>>, <<SignatureRaws[2]>>},
     Publisher : {<<>>, <<SignatureRaws[1]>>, <<SignatureRaws[2]>>},
     XXX_unrecognized : {<<>>, <<72, 5>>}]

\* what a peer sends for the bytes d: d itself, or d with a field of a
\* later version of the message before or after it
Wire(d) ==
    {[added |-> <<>>, first |-> FALSE, dAtA |-> d]}
        \cup { [added |-> u, first |-> TRUE, dAtA |-> u \o d] : u \in UnknownFields }
        \cup { [added |-> u, first |-> FALSE, dAtA |-> d \o u] : u \in UnknownFields }

CodecFrame ==
    /\ UNCHANGED <<chTx, chLinkedNode, pendingTx, blockList, forkChain, ppc, sending, published>>
    /\ UNCHANGED <<cacheVars, last, loopVars, syncVars>>

\* a call of TxRaw.Marshal, on the transaction to publish or on the one the
\* last Unmarshal filled
MarshalCall ==
    /\ \E m \in IF ret = NoRet THEN { p.raw : p \in published }
                ELSE IF ret.op = "Unmarshal" /\ ret.err = errNil /\ ret.calls < MaxCalls
                    THEN {ret.m}
                ELSE {} :
          \E out \in {TxRawMarshal(m)} :
              ret' = [op |-> "Marshal", calls |-> IF ret = NoRet THEN 1 ELSE ret.calls + 1,
                      m |-> m, panic |-> out.panic, size |-> out.size, n |-> out.n,
                      dAtA |-> out.dAtA]
    /\ CodecFrame

\* a call of TxRaw.Unmarshal on a new TxRaw with the bytes a peer sends for
\* what the last Marshal returned
UnmarshalCall ==
    /\ ret # NoRet
    /\ ret.op = "Marshal"
    /\ ~ret.panic
    /\ ret.calls < MaxCalls
    /\ \E w \in Wire(ret.dAtA) :
          \E r \in {TxRawUnmarshal(NewTxRaw, w.dAtA)} :
              ret' = [op |-> "Unmarshal", calls |-> ret.calls + 1, sent |-> ret.m,
                      added |-> w.added, first |-> w.first, dAtA |-> w.dAtA,
                      err |-> r.err, m |-> r.m]
    /\ CodecFrame

\* a node about to publish one transaction
InitCodec ==
    /\ Built(WitnessList, 0, {})
    /\ PoolNew
    /\ published \in { {[raw |-> m]} : m \in TxRaws }
    /\ Started
    /\ sync = "set"
    /\ SyncFields(Controllers)

NextCodec == MarshalCall \/ UnmarshalCall

SpecCodec == InitCodec /\ [][NextCodec]_vars

(***************************************************************************)
(* Claims about the wire format.                                           *)
(***************************************************************************)
\* C28: Marshal writes exactly Size(m) bytes, ending with the bytes of
\* unknown fields m holds; Unmarshal of what Marshal wrote fills a TxRaw
\* equal to m in every field, and Unmarshal of bytes that also hold an
\* unknown field fills the same TxRaw with the bytes of that field kept.
C28_RoundTrip ==
    /\ ret.op = "Marshal" =>
          /\ ~ret.panic
          /\ ret.n = ret.size
          /\ Len(ret.dAtA) = ret.size
          /\ LET u == ret.m.XXX_unrecognized
             IN  SubSeq(ret.dAtA, ret.n - Len(u) + 1, ret.n) = u
    /\ ret.op = "Unmarshal" =>
          /\ ret.err = errNil
          /\ ret.m = [ret.sent EXCEPT !.XXX_unrecognized =
                         IF ret.first THEN ret.added \o @ ELSE @ \o ret.added]

\* a transaction with a negative time, nested messages and a field of an
\* earlier version has been encoded, decoded from bytes a group of a later
\* version was put before, and encoded again with both unknown fields
C28_Witness ==
    /\ ret.op = "Marshal"
    /\ ret.calls = 3
    /\ ret.m.Time = -1
    /\ Len(ret.m.Actions) = 2
    /\ ret.m.Publisher = <<SignatureRaws[2]>>
    /\ ret.m.XXX_unrecognized = <<75, 72, 5, 76, 72, 5>>
    /\ ret.m.Signers = << <<5>>, <<6, 7>> >>
    /\ ret.n > 30

(***************************************************************************)
(* Claims about the witness of a sub-slot and the re-check of a round.     *)
(***************************************************************************)
\* a round is going on, or has just been left and not yet closed
InsideRound == spc \in {"gen", "ticker", "close"}

\* the re-check of the round going on was made, and failed
CheckFailed == spc = "close" /\ ~LastOfRound(num)

\* the re-check of the round going on was made, and passed
CheckPassed == spc = "gen" /\ num > 0

\* the round going on was entered at the first sub-slot of its slot and
\* its last tick was taken in that slot
TickInSlot ==
    /\ rounds[Len(rounds)].time % blockNumPerWitness = 0
    /\ slotOfSec(SecOfTime(tickedAt)) = rounds[Len(rounds)].slot

C30_Recheck ==
    [][/\ spc = "ticker" /\ spc' # "ticker" =>
              /\ tickedAt' = now
              /\ genHead' = PendingTx
              /\ IF witnessOfNanoSec(now, active) = pubkey
                     THEN spc' = "gen" /\ num' = num + 1
                     ELSE spc' = "close"
       /\ spc = "close" =>
              /\ produced' = produced
              /\ rounds' = rounds
              /\ spc' \in {"close", "select"}
              /\ spc' = "select" => quitGenerateMode \in closed'
       /\ Len(produced') > Len(produced) /\ num > 0 =>
              /\ witnessOfNanoSec(tickedAt, active) = pubkey
              /\ quitGenerateMode \notin closed
      ]_vars

\* a round of three witnesses that generated its second block after a late
\* tick found this node the witness again, and then was closed by a tick
\* that found another one
C30_Witness ==
    /\ Len(active) = 3
    /\ spc = "select"
    /\ Len(rounds) = 1
    /\ quitGenerateMode \in closed
    /\ num = 1
    /\ \E i \in 1..Len(produced) : produced[i].num = 1
    /\ witnessOfNanoSec(tickedAt, active) # pubkey

(***************************************************************************)
(* Claims about the wake-up of a node that is catching up.                 *)
(***************************************************************************)
\* the schedule loop wakes in a new slot of this node and is back in its
\* select with the timer set again to the old duration: the node was
\* catching up
SkippedWake ==
    /\ spc = "select"
    /\ now >= wakeAt
    /\ ShouldProduce(slotFlag, now)
    /\ spc' = "select"
    /\ wakeAt' = now + nextSchedule

\* C31: a wake-up at which the node is catching up generates and
\* broadcasts no block, leaves quitGenerateMode as it is (not made anew,
\* so the gate stays open) and leaves slotFlag unchanged, also when this
\* node is the witness of a slot it has not served.
C31_Skip ==
    [][SkippedWake =>
          /\ produced' = produced
          /\ rounds' = rounds
          /\ quitGenerateMode' = quitGenerateMode
          /\ closed' = closed
          /\ slotFlag' = slotFlag
          /\ nodes' = nodes
      ]_vars

\* the loop has woken at a moment of a new slot of this node while catching
\* up: no round was entered, the gate is open, the timer runs again
C31_Witness ==
    /\ spc = "select"
    /\ now > StartTime
    /\ Len(active) > 1
    /\ ShouldProduce(slotFlag, now)
    /\ wakeAt = now + nextSchedule
    /\ rounds = <<>>
    /\ produced = <<>>
    /\ quitGenerateMode \in closed

(***************************************************************************)
(* Claims about what Stop leaves undone.                                   *)
(***************************************************************************)
\* C32: the verify loop returns only with nothing left on
\* sync.IncomingBlock(): every message queued when exitSignal was closed
\* has been taken and passed to doVerifyBlock before.
C32_Drained ==
    [][vpc # "done" /\ vpc' = "done" => incoming = {}]_vars

\* Stop has returned, the verify loop returned from its select without
\* having worked on a message, and the synchronizer still holds blocks for it
C32_Witness ==
    /\ stopPc = "returned"
    /\ vpc = "done"
    /\ vmsg = NoMsg
    /\ incoming # {}
    /\ \A m \in incoming : ~Find(nodes, m.blk.hash)

\* C33: after Stop the loop of the pool does not end the process: it
\* handles what is queued on its channels and returns.
C33_Returns == ppc.at # "os.Exit"

\* Stop was called with a transaction and a linked node queued; the loop
\* handled the transaction, found chTx closed and called os.Exit with the
\* node still in chLinkedNode
C33_Witness ==
    /\ ppc.at = "os.Exit"
    /\ chTx = <<ChClosed>>
    /\ Len(chLinkedNode) = 2
    /\ pendingTx # {}

(***************************************************************************)
(* Claims about the head the pool follows.                                 *)
(***************************************************************************)
\* the loop is done with a node whose head is a child of the recorded head,
\* or with the first node it was given
ExtensionDone ==
    /\ ppc.at = "linked"
    /\ ppc'.at = "select"
    /\ \/ forkChain.NewHead = NoHash
       \/ PoolBlockOf(ppc.node.HeadNode).parentHash = forkChain.NewHead

\* C34: a straight extension records the head of the notification as
\* NewHead, leaves OldHead and ForkBlockHash as they are, takes out of
\* pending the entries under the hashes of the transactions of the linked
\* block and nothing else, and puts nothing into pending.
C34_Extension ==
    [][ExtensionDone =>
          /\ forkChain' = [forkChain EXCEPT !.NewHead = ppc.node.HeadNode]
          /\ pendingTx' = { e \in pendingTx : e.key \notin TxMap(ppc.node.LinkedNode) }
          /\ blockList' = blockList \cup {ppc.node.LinkedNode}
      ]_vars

\* block 1 and then its child 12 were linked, each becoming the head: no
\* old head and no fork point were recorded, and the transaction of block
\* 12 is not pending
C34_Witness ==
    /\ ppc.at = "select"
    /\ forkChain = [NewHead |-> 12, OldHead |-> NoHash, ForkBlockHash |-> NoHash]
    /\ blockList = {0, 1, 12}
    /\ pendingTx = {}
    /\ chTx = <<>>
    /\ \A c \in Callers : sending[c] = NoTx

(***************************************************************************)
(* Claims about the sweep of blockList.                                    *)
(***************************************************************************)
\* the loop ends a sweep: lines 203-205
SweepDone == ppc.at = "clear" /\ ppc'.at = "select"

BlockTime(h) == PoolBlockOf(h).time

\* C35 as stated: a sweep made while a head is recorded leaves no entry
\* older than filterTime before the time of that head, and keeps every
\* entry that is not older.
C35_ByHead ==
    [][SweepDone /\ forkChain.NewHead # NoHash =>
          blockList' = { h \in blockList :
                           BlockTime(h) >= BlockTime(forkChain.NewHead) - filterTime }
      ]_vars

\* C35 as amended: a sweep leaves no entry older than filterTime before the
\* time of the root of the BlockCache (chain.LinkedTree), and keeps every
\* entry that is not older.
C35_ByRoot ==
    [][SweepDone =>
          blockList' = { h \in blockList : BlockTime(h) >= LinkedTree.time - filterTime }
      ]_vars

\* a sweep was made with block 3 as the head: the two old blocks of the
\* chain store are gone, and the root and the blocks 1 and 2, made more
\* than filterTime before block 3, are kept
C35_Witness ==
    /\ ppc.at = "select"
    /\ forkChain.NewHead = 3
    /\ blockList = {0, 1, 2, 3}
    /\ BlockTime(2) < BlockTime(3) - filterTime
    /\ chLinkedNode = <<>>

(***************************************************************************)
(* Claims about the channel the verify loop waits on.                      *)
(***************************************************************************)
\* the verify loop holds a block and has not yet passed lines 193-195
AtGate == vpc \in {"gate", "wait"}

\* C36: the channel held in quitGenerateMode is open only while the
\* schedule loop is inside a round; a verify loop that holds a block in
\* front of the gate gets past it; and the close that ends a round is
\* applied to a channel that is still open.
C36_Gate ==
    /\ [](quitGenerateMode \notin closed => InsideRound)
    /\ AtGate ~> ~AtGate
    /\ [][spc = "close" /\ spc' # "close" =>
            quitGenerateMode \notin closed /\ closed' = closed \cup {quitGenerateMode}]_vars

\* the verify loop is past the gate with the block it held, the channel it
\* waited on being the one of a round that was left before its last block
C36_Witness ==
    /\ vpc = "limit"
    /\ vmsg # NoMsg
    /\ vchan = quitGenerateMode
    /\ vchan # 0
    /\ vchan \in closed
    /\ spc = "select"
    /\ rounds # <<>>
    /\ ~LastOfRound(num)

(***************************************************************************)
(* The handlers with a neighbour announcing again the hash of a block that *)
(* was rejected as over the limit.                                         *)
(***************************************************************************)
RejectedBlocks == { b \in Universe : b.hash \in rejected }

NextKnown == Next \/ doNewBlockSyncOf(RejectedBlocks)

SpecKnown == Init /\ [][NextKnown]_vars

\* a handler is called with a block that was rejected as over the limit
Redelivered == last = NoCall /\ last' # NoCall /\ last'.blk.hash \in rejected

\* the calls that take nodes out of the cache
Removals == { i \in 1..Len(last.calls) : last.calls[i].op = "Del" }

C38_OwnTx ==
    /\ \A e \in pendingTx : e.tx.id = e.key
    /\ \A a, b \in pendingTx : a.key # b.key => a.tx # b.tx

\* block 2, with its two transactions, was abandoned for block 12: both
\* hashes of block 2 are keys of pending, and both entries hold the second
\* transaction of the block
C38_Witness ==
    /\ ppc.at = "select"
    /\ forkChain.OldHead = 2
    /\ forkChain.NewHead = 12
    /\ Keys(pendingTx) = TxMap(2)
    /\ \A e \in pendingTx : e.tx = PoolBlockOf(2).txs[Len(PoolBlockOf(2).txs)]
    /\ Len(PoolBlockOf(2).txs) >= 2

(***************************************************************************)
(* Claims about a notification that does not move the head.                *)
(***************************************************************************)
\* the loop is done with a node whose head n is the recorded head o, or a
\* block above o that is not a child of o
HeadKeptDone(n, o) ==
    /\ ppc.at = "linked"
    /\ ppc'.at = "select"
    /\ o # NoHash
    /\ PoolBlockOf(n).parentHash # o
    /\ o \in {n} \cup AncestorsOf(n)

\* C39: when the head of a notification is the recorded head or a block
\* above it, nothing is put into pending and pending is not emptied: it
\* loses at most the transactions of the blocks from the head of the
\* notification down to the recorded head, the recorded head left out.
C39_HeadKept ==
    [][HeadKeptDone(ppc.node.HeadNode, forkChain.NewHead) =>
          /\ pendingTx' \subseteq pendingTx
          /\ \A e \in pendingTx \ pendingTx' :
                \E h \in BranchAbove(ppc.node.HeadNode, forkChain.NewHead) : e.key \in TxMap(h)
      ]_vars

\* block 12 was linked beside block 2 while block 2 stayed the head: block
\* 2 is recorded as the old head, the new head and the fork point, and the
\* transaction of block 12, not part of the chain of block 2, is not pending
C39_Witness ==
    /\ ppc.at = "select"
    /\ forkChain = [NewHead |-> 2, OldHead |-> 2, ForkBlockHash |-> 2]
    /\ blockList = {0, 1, 2, 12}
    /\ pendingTx = {}
    /\ ~existTxInChain(PoolCur, 2, 2, PoolBlockOf(2).time)
    /\ chTx = <<>>

(***************************************************************************)
(* Claims about the pool before its first linked node.                     *)
(***************************************************************************)
\* C40: the loop never reads through forkChain.NewHead while it is nil: no
\* message from chTx makes the loop fault, whatever the order of the
\* transactions and the linked nodes.
C40_NoFault == ppc.at # "panic"

\* a transaction was taken from chTx while no head was recorded, the first
\* linked node still waiting in its channel: addTx read the Block of a nil
\* NewHead
C40_Witness ==
    /\ ppc.at = "panic"
    /\ forkChain = NoFork
    /\ chLinkedNode # <<>>
    /\ pendingTx = {}
    /\ blockList = initBlockTx(PoolTime)
====
